---- MODULE Spec2Model ----
(***************************************************************************)
(* Asynchronous job-completion workflow of the video generation backend:   *)
(* optional input-image upload, job submission, the bounded poll loop,     *)
(* artifact download, size enforcement, storage put and result assembly.   *)
(*                                                                         *)
(* Two implementations of the same workflow live in the repository and     *)
(* both are modelled, selected by the variable impl:                       *)
(*   "services"  VideoService delegating to OpenAiVideoService,            *)
(*               KieVideoService and VideoStorageService                   *)
(*   "monolith"  the single-class VideoService (video.service.ts)          *)
(* and each has two provider variants, selected by the variable variant:   *)
(*   "openai"  generateVideo         (5 min deadline, 5 s interval)        *)
(*   "kie"     generateVideoWithKie  (10 min deadline, 10 s interval)      *)
(*                                                                         *)
(* One behaviour is one execution.  Every await of the code is one action; *)
(* what the awaited collaborator answers, and how long it takes, is chosen *)
(* by the environment with \E.  Time is in milliseconds.                   *)
(***************************************************************************)
EXTENDS Integers, Sequences, FiniteSets, TLC

\* ------------------------------------------------------------------ bounds

\* Longest time one status request may take, in clock steps (see Ms).
MaxLatency == 1
\* Longest time a timer may fire after its due time, in clock steps.
MaxTimerSlack == 1
\* Direct calls of the poller: maxWaitTime ranges over 0 .. MaxWaitSteps seconds.
MaxWaitSteps == 4
\* Direct calls of the poller: pollInterval ranges over 1 .. MaxIntervalSteps half seconds.
MaxIntervalSteps == 3
\* Downloaded artifacts range over MAX_VIDEO_SIZE - MaxSizeDelta .. MAX_VIDEO_SIZE + MaxSizeDelta.
MaxSizeDelta == 1
MaxConcChecks == 2
MaxDriftSteps == 4
\* The clock advances at most MaxTicks milliseconds while image uploads begin.
MaxTicks == 2
\* Image sizes range over MAX_IMAGE_SIZE - MaxImageDelta .. MAX_IMAGE_SIZE + MaxImageDelta.
MaxImageDelta == 1

\* ------------------------------------------------------- program constants

OPENAI_MAX_WAIT == 5 * 60 * 1000
OPENAI_POLL_INTERVAL == 5000
KIE_MAX_WAIT == 10 * 60 * 1000
KIE_POLL_INTERVAL == 10000
LEGACY_POLL_INTERVAL == 2000
MAX_VIDEO_SIZE == 100 * 1024 * 1024
INTERNAL_SERVER_ERROR == 500
REQUEST_TIMEOUT == 408
PAYLOAD_TOO_LARGE == 413

\* ----------------------------------------------------------- value domains

Impls == {"services", "monolith"}
\* The oldest revision of VideoService: OpenAI only, no input image.
Revisions == Impls \cup {"legacy"}
Variants == {"openai", "kie"}

\* The JavaScript value undefined, where a string is expected.
Undefined == "<undefined>"
\* JavaScript truthiness of a string-or-undefined value (!x).
Falsy(s) == s \in {"", Undefined}
\* Template interpolation `${s}`.
Interp(s) == IF s = Undefined THEN "undefined" ELSE s

\* The clock advances in quarter seconds when a collaborator takes time.
Ms(k) == 250 * k
Latencies == {Ms(k) : k \in 0..MaxLatency}
TimerSlacks == {Ms(k) : k \in 0..MaxTimerSlack}

\* An error value: an HttpException (http) with its status, or any other Error.
HttpException(msg, status) == [http |-> TRUE, status |-> status, msg |-> msg]
OtherError(msg) == [http |-> FALSE, status |-> 0, msg |-> msg]
NoError == [http |-> FALSE, status |-> 0, msg |-> ""]

\* What an error value tells its catcher besides the status: its message, a
\* template string as its pieces (a literal is one piece).
MessagePieces(e) == <<e.msg>>
Carries(e, x) == \E k \in DOMAIN MessagePieces(e) : MessagePieces(e)[k] = Interp(x)

\* response?.resultUrls of a Kie status response: absent, or a list of strings.
NoUrls == [defined |-> FALSE, urls |-> << >>]
Urls(s) == [defined |-> TRUE, urls |-> s]
UrlLists == {NoUrls, Urls(<< >>), Urls(<<"">>), Urls(<<"https://remote/a.mp4">>),
             Urls(<<"https://remote/a.mp4", "https://remote/b.mp4">>),
             Urls(<<"", "https://remote/b.mp4">>)}

bucketName == "adsanity-videos"

\* What an awaited call hands back: a value, or a thrown error.
Ret(v) == [thrown |-> FALSE, value |-> v, err |-> NoError]
Throw(v, e) == [thrown |-> TRUE, value |-> v, err |-> e]

\* ------------------------------------------------- what the providers answer

\* openai.videos.create: the call rejects, or resolves with the parsed body
\* (the SDK does not validate it: the body may lack an id).
NoVideo == [id |-> Undefined, model |-> "", size |-> "", seconds |-> ""]
OpenAiVideo(id) == [id |-> id, model |-> "sora-2", size |-> "720x1280", seconds |-> "4"]
OpenAiCreateResponses ==
    {[kind |-> "throw", video |-> NoVideo]}
    \cup {[kind |-> "video", video |-> OpenAiVideo(i)] : i \in {"video_123", Undefined}}

\* POST to the Kie endpoint: fetch or response.json() rejects, or an HTTP
\* response with body { code, msg, data: { taskId } }.
KieCreateResponses ==
    {[kind |-> "throw", ok |-> FALSE, code |-> 0, hasData |-> FALSE, taskId |-> Undefined]}
    \cup {[kind |-> "http", ok |-> o, code |-> c, hasData |-> d, taskId |-> t] :
            o \in BOOLEAN, c \in {200, 401}, d \in BOOLEAN, t \in {"task-123", Undefined}}

\* openai.videos.retrieve: the call rejects, or resolves with { status, error? }.
OpenAiStatusResponses ==
    {[kind |-> "throw", status |-> "", hasError |-> FALSE]}
    \cup {[kind |-> "status", status |-> s, hasError |-> FALSE] :
            s \in {"queued", "in_progress", "completed", "cancelled"}}
    \cup {[kind |-> "status", status |-> "failed", hasError |-> e] : e \in BOOLEAN}

\* GET of the Kie status endpoint: fetch or response.json() rejects, or an HTTP
\* response with body { code, msg, data: { successFlag, response?: { resultUrls? } } }.
KieStatusResponses ==
    {[kind |-> "throw", ok |-> FALSE, code |-> 0, hasData |-> FALSE,
      successFlag |-> 0, resultUrls |-> NoUrls]}
    \cup {[kind |-> "http", ok |-> o, code |-> c, hasData |-> TRUE,
           successFlag |-> f, resultUrls |-> NoUrls] :
            o \in BOOLEAN, c \in {200, 401}, f \in {0, 1, 2, 3, 4}}
    \cup {[kind |-> "http", ok |-> TRUE, code |-> 200, hasData |-> FALSE,
           successFlag |-> 0, resultUrls |-> NoUrls]}
    \cup {[kind |-> "http", ok |-> TRUE, code |-> 200, hasData |-> TRUE,
           successFlag |-> 1, resultUrls |-> u] : u \in UrlLists}

StatusResponses(v) == IF v = "openai" THEN OpenAiStatusResponses ELSE KieStatusResponses

\* The JobStatus a status answer stands for on the wire: "Completed", "Failed",
\* "Pending", "Unknown" (a code outside the vocabulary) or "Transient" (the
\* request failed, was rejected, or its body could not be read).
Reported(v, r) ==
    IF v = "openai"
    THEN CASE r.kind = "throw" -> "Transient"
           [] r.status = "completed" -> "Completed"
           [] r.status = "failed" -> "Failed"
           [] r.status \in {"queued", "in_progress"} -> "Pending"
           [] OTHER -> "Unknown"
    ELSE CASE r.kind = "throw" \/ ~r.ok \/ r.code # 200 \/ ~r.hasData -> "Transient"
           [] r.successFlag = 0 -> "Pending"
           [] r.successFlag = 1 -> "Completed"
           [] r.successFlag \in {2, 3} -> "Failed"
           [] OTHER -> "Unknown"

\* ------------------------------------------------------------ image upload

\* `https://storage.googleapis.com/${bucketName}/images/${Date.now()}-${originalname}`,
\* by the values that vary in it.
ImageUrl(t, name) == [bucket |-> bucketName, ts |-> t, name |-> name]
NoImageUrl == [bucket |-> "", ts |-> 0, name |-> ""]
NoUpload == [state |-> "none", url |-> NoImageUrl]

\* VideoStorageService.uploadImage / VideoService.uploadImageToBucket: the URL
\* of the stored image, or an HttpException of its own when file.save fails.
UploadImageResult(ok, t, name) ==
    IF ok THEN Ret(ImageUrl(t, name))
    ELSE Throw(NoImageUrl, HttpException("Failed to upload image", INTERNAL_SERVER_ERROR))

\* Mutant: a failed image upload is swallowed and generate goes on.
UploadAborts_Never(got) == FALSE

\* `await uploadImage(image)` inside the try of generate (monolith Kie: inside
\* the try of createVideoWithKie, which rethrows the HttpException): a
\* rejection transfers control to the catch block, past the submit.
UploadAborts(got) == got.thrown

\* ------------------------------------------------------------- submission

\* Mutant: the uploaded image's URL is left out of the request.
KieRequestImageUrls_Null(list) == NoUrls

\* imageUrls: imageUrls.length > 0 ? imageUrls : null, of the Kie request body.
KieRequestImageUrls(list) == IF Len(list) > 0 THEN Urls(list) ELSE NoUrls

\* What the submit request carries of the input image: Kie gets the list of
\* image URLs, OpenAI the image file itself as input_reference.
NoRequest == [imageUrls |-> NoUrls, inputReference |-> FALSE]
RequestBody(v, img, list) ==
    IF v = "kie" THEN [imageUrls |-> KieRequestImageUrls(list), inputReference |-> FALSE]
    ELSE [imageUrls |-> NoUrls, inputReference |-> img]

\* OpenAiVideoService.createVideo / VideoService.createVideoWithOpenAI: no
\* try/catch, the SDK's rejection propagates, its body is returned as it is.
OpenAiCreateVideo(r) ==
    IF r.kind = "throw" THEN Throw(NoVideo, OtherError("openai create rejected"))
    ELSE Ret(r.video)

\* KieVideoService.createVideo: no try/catch; result.data.taskId is returned
\* unchecked, and reading it off a missing data object is a TypeError.
KieCreateVideo(r) ==
    CASE r.kind = "throw" -> Throw(Undefined, OtherError("fetch failed"))
      [] r.kind = "http" /\ ~r.ok ->
            Throw(Undefined, HttpException("Kie API error", INTERNAL_SERVER_ERROR))
      [] r.kind = "http" /\ r.ok /\ r.code # 200 ->
            Throw(Undefined, HttpException("Kie API error", INTERNAL_SERVER_ERROR))
      [] r.kind = "http" /\ r.ok /\ r.code = 200 /\ ~r.hasData ->
            Throw(Undefined, OtherError("TypeError"))
      [] OTHER -> Ret(r.taskId)

\* VideoService.createVideoWithKie of the monolith: the same request inside a
\* try/catch that rethrows an HttpException and wraps anything else.
CreateVideoWithKie(r) ==
    LET inner == KieCreateVideo(r) IN
    IF inner.thrown /\ ~inner.err.http
    THEN Throw(Undefined,
               HttpException("Failed to create video with Kie", INTERNAL_SERVER_ERROR))
    ELSE inner

\* The job as the orchestrator holds it: the video object of the OpenAI SDK, or
\* only the task id for Kie.
KieJob(taskId) == [id |-> taskId, model |-> "", size |-> "", seconds |-> ""]
AsJob(x) == IF x.thrown THEN Throw(NoVideo, x.err) ELSE Ret(KieJob(x.value))

\* Every way the submit call of an implementation and variant can end.
SubmitOutcomes(i, v) ==
    IF v = "openai" THEN {OpenAiCreateVideo(r) : r \in OpenAiCreateResponses}
    ELSE IF i = "services" THEN {AsJob(KieCreateVideo(r)) : r \in KieCreateResponses}
    ELSE {AsJob(CreateVideoWithKie(r)) : r \in KieCreateResponses}

\* ---------------------------------------------------------------- polling

\* What one turn of a poll loop does with the status answer: return a value,
\* throw, or wait pollInterval and loop.
NoPollValue == [status |-> "", videoUrls |-> NoUrls, hasError |-> FALSE, error |-> Undefined]

\* The reason a provider gives for a failed job: error.message of the OpenAI
\* video object (absent when the object has no error), msg of the Kie body.
ProviderReason == "content policy violation"
ErrorMessage(r) == IF r.hasError THEN ProviderReason ELSE Undefined
PollReturns(v) == [act |-> "return", value |-> v, err |-> NoError]
PollThrows(e) == [act |-> "throw", value |-> NoPollValue, err |-> e]
PollWaits == [act |-> "wait", value |-> NoPollValue, err |-> NoError]

\* Mutant: any status that is not in progress ends the poll as a failure.
OpenAiPollStep_UnknownFails(r) ==
    IF r.kind = "throw" THEN PollThrows(OtherError("openai retrieve rejected"))
    ELSE IF r.status = "completed"
    THEN PollReturns([status |-> r.status, videoUrls |-> NoUrls, hasError |-> r.hasError,
                  error |-> ErrorMessage(r)])
    ELSE IF r.status \in {"queued", "in_progress"} THEN PollWaits
    ELSE PollReturns([status |-> "failed", videoUrls |-> NoUrls, hasError |-> r.hasError,
                  error |-> ErrorMessage(r)])

\* Mutant: the loop goes on only while the job is queued or in progress, and
\* returns whatever other status the provider reports.
OpenAiPollStep_ReturnsOther(r) ==
    IF r.kind = "throw" THEN PollThrows(OtherError("openai retrieve rejected"))
    ELSE IF r.status \in {"queued", "in_progress"} THEN PollWaits
    ELSE PollReturns([status |-> r.status, videoUrls |-> NoUrls, hasError |-> r.hasError,
                      error |-> ErrorMessage(r)])

\* Body of the while loop of OpenAiVideoService.pollForCompletion: the await of
\* retrieve is not inside any try, so its rejection leaves the loop.
OpenAiPollStep(r) ==
    IF r.kind = "throw" THEN PollThrows(OtherError("openai retrieve rejected"))
    ELSE IF r.status = "completed" \/ r.status = "failed"
    THEN PollReturns([status |-> r.status, videoUrls |-> NoUrls, hasError |-> r.hasError,
                  error |-> ErrorMessage(r)])
    ELSE PollWaits

\* Body of the while loop of VideoService.pollForVideoCompletion (monolith).
PollForVideoCompletionStep(r) ==
    IF r.kind = "throw" THEN PollThrows(OtherError("openai retrieve rejected"))
    ELSE IF r.status = "completed" \/ r.status = "failed"
    THEN PollReturns([status |-> r.status, videoUrls |-> NoUrls, hasError |-> r.hasError,
                  error |-> ErrorMessage(r)])
    ELSE PollWaits

\* KieVideoService.checkStatus / VideoService.checkKieVideoStatus: the body when
\* response.ok and code 200, null otherwise and on any rejection.
KieNull == [null |-> TRUE, hasData |-> FALSE, successFlag |-> 0, resultUrls |-> NoUrls]
KieCheckStatus(r) ==
    IF r.kind = "http" /\ r.ok /\ r.code = 200
    THEN [null |-> FALSE, hasData |-> r.hasData, successFlag |-> r.successFlag,
          resultUrls |-> r.resultUrls]
    ELSE KieNull

\* Mutant: successFlag 3 is not recognised as a failure.
KiePollStep_Flag3Pending(r) ==
    LET result == KieCheckStatus(r) IN
    CASE ~result.null /\ result.hasData /\ result.successFlag = 1 ->
            PollReturns([status |-> "completed", videoUrls |-> result.resultUrls,
                         hasError |-> FALSE, error |-> Undefined])
      [] ~result.null /\ result.hasData /\ result.successFlag = 2 ->
            PollReturns([status |-> "failed", videoUrls |-> NoUrls, hasError |-> TRUE,
                         error |-> ProviderReason])
      [] OTHER -> PollWaits

\* Body of the while loop of KieVideoService.pollForCompletion: null waits;
\* destructuring a missing data object throws inside the try and waits too.
KiePollStep(r) ==
    LET result == KieCheckStatus(r) IN
    CASE result.null -> PollWaits
      [] ~result.null /\ ~result.hasData -> PollWaits
      [] ~result.null /\ result.hasData /\ result.successFlag = 0 -> PollWaits
      [] ~result.null /\ result.hasData /\ result.successFlag = 1 ->
            PollReturns([status |-> "completed", videoUrls |-> result.resultUrls,
                         hasError |-> FALSE, error |-> Undefined])
      [] ~result.null /\ result.hasData /\ result.successFlag \in {2, 3} ->
            PollReturns([status |-> "failed", videoUrls |-> NoUrls, hasError |-> TRUE,
                         error |-> ProviderReason])
      [] OTHER -> PollWaits

\* Mutant: a status response that is rejected ends the poll as a failure.
PollForKieVideoCompletionStep_RejectionFails(r) ==
    IF KieCheckStatus(r).null
    THEN PollReturns([status |-> "failed", videoUrls |-> NoUrls, hasError |-> TRUE,
                      error |-> ProviderReason])
    ELSE KiePollStep(r)

\* Body of the while loop of VideoService.pollForKieVideoCompletion (monolith):
\* result?.code !== 200 waits, the rest as above.
PollForKieVideoCompletionStep(r) ==
    LET result == KieCheckStatus(r) IN
    CASE result.null -> PollWaits
      [] ~result.null /\ ~result.hasData -> PollWaits
      [] ~result.null /\ result.hasData /\ result.successFlag = 0 -> PollWaits
      [] ~result.null /\ result.hasData /\ result.successFlag = 1 ->
            PollReturns([status |-> "completed", videoUrls |-> result.resultUrls,
                         hasError |-> FALSE, error |-> Undefined])
      [] ~result.null /\ result.hasData /\ result.successFlag \in {2, 3} ->
            PollReturns([status |-> "failed", videoUrls |-> NoUrls, hasError |-> TRUE,
                         error |-> ProviderReason])
      [] OTHER -> PollWaits

\* Body of the while loop of pollForVideoCompletion in the oldest revision.
LegacyPollStep(r) ==
    IF r.kind = "throw" THEN PollThrows(OtherError("openai retrieve rejected"))
    ELSE IF r.status \in {"completed", "failed"}
    THEN PollReturns([status |-> r.status, videoUrls |-> NoUrls, hasError |-> r.hasError,
                      error |-> ErrorMessage(r)])
    ELSE PollWaits

PollStep(i, v, r) ==
    CASE i = "legacy" -> LegacyPollStep(r)
      [] i = "services" /\ v = "openai" -> OpenAiPollStep(r)
      [] i = "services" /\ v = "kie" -> KiePollStep(r)
      [] i = "monolith" /\ v = "openai" -> PollForVideoCompletionStep(r)
      [] i = "monolith" /\ v = "kie" -> PollForKieVideoCompletionStep(r)

\* Mutant: the loop runs while Date.now() <= endTime.
LoopGuard_Inclusive(t, endTime) == t <= endTime

\* Mutant: the loop goes on for half a second past the deadline.
LoopGuard_Grace(t, endTime) == t < endTime + Ms(2)

\* while (Date.now() < endTime), the guard of all four poll loops.
LoopGuard(t, endTime) == t < endTime

\* while (Date.now() - startTime < maxWaitTime), the guard of the oldest revision.
LegacyLoopGuard(t, startTime, maxWait) == t - startTime < maxWait

\* Mutant: every revision makes one more check when the time is the deadline.
LoopTest_AtDeadline(i, t, endTime, maxWait) == t - (endTime - maxWait) <= maxWait

\* The loop test of revision i.
LoopTest(i, t, endTime, maxWait) ==
    IF i = "legacy" THEN LegacyLoopGuard(t, endTime - maxWait, maxWait)
    ELSE LoopGuard(t, endTime)

\* Mutant: the wait grows with the number of the attempt.
DelayMs_Backoff(interval, attempt) == interval * attempt

\* await this.delay(pollInterval): the length asked of the timer, the same on
\* every attempt and in every branch of the loop.
DelayMs(interval, attempt) == interval

\* The HttpException thrown after the loop.
TimeoutError(v) ==
    IF v = "openai"
    THEN HttpException("Video generation timeout - please try again", REQUEST_TIMEOUT)
    ELSE HttpException("Kie video generation timeout - please try again", REQUEST_TIMEOUT)

\* ------------------------------------------------------------ orchestration

\* Mutant: the catch block replaces every error by the generic internal error.
OrchestratorCatch_Generic(v, e) ==
    IF v = "openai"
    THEN HttpException("Failed to generate video", INTERNAL_SERVER_ERROR)
    ELSE HttpException("Failed to generate video with Kie", INTERNAL_SERVER_ERROR)

\* Mutant: no catch block, every error leaves generate as it was raised.
OrchestratorCatch_Rethrow(v, e) == e

\* The catch block of generateVideo / generateVideoWithKie (both
\* implementations): an HttpException is rethrown as it is, anything else is
\* replaced by a generic internal error.
OrchestratorCatch(v, e) ==
    IF e.http THEN e
    ELSE IF v = "openai"
    THEN HttpException("Failed to generate video", INTERNAL_SERVER_ERROR)
    ELSE HttpException("Failed to generate video with Kie", INTERNAL_SERVER_ERROR)

\* Mutant: a rejected submit is swallowed and the poll goes ahead.
SubmitAborts_Never(got) == FALSE

\* `const video = await createVideo(..)` inside the try of generate: a
\* rejection transfers control to the catch block, past the poll.
SubmitAborts(got) == got.thrown

\* The arguments generate hands to the poller.
PollParams(i, v) ==
    IF i = "legacy"
    THEN [maxWaitTime |-> OPENAI_MAX_WAIT, pollInterval |-> LEGACY_POLL_INTERVAL]
    ELSE IF v = "openai"
    THEN [maxWaitTime |-> OPENAI_MAX_WAIT, pollInterval |-> OPENAI_POLL_INTERVAL]
    ELSE [maxWaitTime |-> KIE_MAX_WAIT, pollInterval |-> KIE_POLL_INTERVAL]

\* What the orchestrator does with the value the poller returned: go on to
\* download a reference, or throw.
GoDownload(ref) == [act |-> "download", ref |-> ref, err |-> NoError]
GoThrow(e) == [act |-> "throw", ref |-> Undefined, err |-> e]

\* Mutant: the last reference of the list is taken.
First_Last(list) == IF Len(list) > 0 THEN list[Len(list)] ELSE Undefined

\* videoUrls[0] / const [videoUrl] = list.
First(list) == IF Len(list) > 0 THEN list[1] ELSE Undefined

\* Mutant: the completed test degraded to a truthiness test of the status.
GenerateVideoDispatch_AnyStatus(pv, id) == GoDownload(id)

\* Mutant: the provider's reason is the message of the error thrown.
GenerateVideoDispatch_ReasonInMessage(pv, id) ==
    CASE pv.status = "completed" -> GoDownload(id)
      [] pv.status = "failed" -> GoThrow(HttpException(pv.error, INTERNAL_SERVER_ERROR))
      [] OTHER ->
            GoThrow(HttpException("Unknown error during video generation",
                                  INTERNAL_SERVER_ERROR))

\* VideoService.generateVideo of the services implementation, after the poll.
GenerateVideoDispatch(pv, id) ==
    CASE pv.status = "completed" -> GoDownload(id)
      [] pv.status = "failed" ->
            GoThrow(HttpException("Video generation failed", INTERNAL_SERVER_ERROR))
      [] OTHER ->
            GoThrow(HttpException("Unknown error during video generation",
                                  INTERNAL_SERVER_ERROR))

\* VideoService.generateVideo of the monolith, after the poll: it reads
\* pollResult.error.message without a guard.
MonolithGenerateVideoDispatch(pv, id) ==
    CASE pv.status = "completed" -> GoDownload(id)
      [] pv.status = "failed" /\ ~pv.hasError -> GoThrow(OtherError("TypeError"))
      [] pv.status = "failed" /\ pv.hasError ->
            GoThrow(HttpException("Video generation failed", INTERNAL_SERVER_ERROR))
      [] OTHER ->
            GoThrow(HttpException("Unknown error during video generation",
                                  INTERNAL_SERVER_ERROR))

\* Mutant: the failed branch is missing.
GenerateVideoWithKieDispatch_NoFailedBranch(pv) ==
    LET list == IF pv.videoUrls.defined THEN pv.videoUrls.urls ELSE << >>
        videoUrl == First(list)
    IN  CASE pv.status = "completed" /\ Falsy(videoUrl) ->
                GoThrow(HttpException("Kie video URL not available", INTERNAL_SERVER_ERROR))
          [] pv.status = "completed" /\ ~Falsy(videoUrl) -> GoDownload(videoUrl)
          [] OTHER ->
                GoThrow(HttpException("Unknown error during Kie video generation",
                                      INTERNAL_SERVER_ERROR))

\* VideoService.generateVideoWithKie of the services implementation, after the
\* poll: the first of (videoUrls || []) must be truthy.
GenerateVideoWithKieDispatch(pv) ==
    LET list == IF pv.videoUrls.defined THEN pv.videoUrls.urls ELSE << >>
        videoUrl == First(list)
    IN  CASE pv.status = "completed" /\ Falsy(videoUrl) ->
                GoThrow(HttpException("Kie video URL not available", INTERNAL_SERVER_ERROR))
          [] pv.status = "completed" /\ ~Falsy(videoUrl) -> GoDownload(videoUrl)
          [] pv.status = "failed" ->
                GoThrow(HttpException("Kie video generation failed", INTERNAL_SERVER_ERROR))
          [] OTHER ->
                GoThrow(HttpException("Unknown error during Kie video generation",
                                      INTERNAL_SERVER_ERROR))

\* VideoService.generateVideoWithKie of the monolith, after the poll:
\* pollResult.videoUrls[0] is read unguarded and handed on as it is.
MonolithGenerateVideoWithKieDispatch(pv) ==
    CASE pv.status = "completed" /\ ~pv.videoUrls.defined -> GoThrow(OtherError("TypeError"))
      [] pv.status = "completed" /\ pv.videoUrls.defined -> GoDownload(First(pv.videoUrls.urls))
      [] pv.status = "failed" ->
            GoThrow(HttpException("Kie video generation failed", INTERNAL_SERVER_ERROR))
      [] OTHER ->
            GoThrow(HttpException("Unknown error during Kie video generation",
                                  INTERNAL_SERVER_ERROR))

\* VideoService.generateVideo of the oldest revision, after the poll.
LegacyGenerateVideoDispatch(pv, id) ==
    CASE pv.status = "completed" -> GoDownload(id)
      [] pv.status = "failed" ->
            GoThrow(HttpException("Video generation failed", INTERNAL_SERVER_ERROR))
      [] OTHER ->
            GoThrow(HttpException("Unknown error during video generation",
                                  INTERNAL_SERVER_ERROR))

\* Mutant: whatever the poller returned, generate goes on to the download.
Dispatch_AlwaysDownload(i, v, pv, id) ==
    GoDownload(IF v = "openai" THEN id
               ELSE First(IF pv.videoUrls.defined /\ pv.videoUrls.urls # << >>
                          THEN pv.videoUrls.urls ELSE <<"https://remote/a.mp4">>))

\* The status dispatch of generate, by revision and variant.
Dispatch(i, v, pv, id) ==
    CASE i = "legacy" -> LegacyGenerateVideoDispatch(pv, id)
      [] i = "services" /\ v = "openai" -> GenerateVideoDispatch(pv, id)
      [] i = "services" /\ v = "kie" -> GenerateVideoWithKieDispatch(pv)
      [] i = "monolith" /\ v = "openai" -> MonolithGenerateVideoDispatch(pv, id)
      [] i = "monolith" /\ v = "kie" -> MonolithGenerateVideoWithKieDispatch(pv)

\* ------------------------------------------------------ download and store

\* Byte lengths a downloaded artifact may have.
Sizes == (MAX_VIDEO_SIZE - MaxSizeDelta) .. (MAX_VIDEO_SIZE + MaxSizeDelta)

\* openai.videos.downloadContent / fetch(videoUrl): the call rejects, or an
\* HTTP response (the SDK rejects a non-OK one itself) with a body of size bytes.
DownloadResponses(v) ==
    {[kind |-> "throw", ok |-> FALSE, size |-> 0]}
    \cup {[kind |-> "http", ok |-> TRUE, size |-> n] : n \in Sizes}
    \cup (IF v = "kie" THEN {[kind |-> "http", ok |-> FALSE, size |-> 0]} ELSE {})

\* Mutant: every key carries a provider tag.
FileName_Tagged(v, id) ==
    IF v = "openai" THEN <<"videos/", "openai-", Interp(id), ".mp4">>
    ELSE <<"videos/", "kie-", Interp(id), ".mp4">>

\* Object key of the stored video: a template string, as its pieces.
FileName(v, id) ==
    IF v = "openai" THEN <<"videos/", Interp(id), ".mp4">>
    ELSE <<"videos/", "kie-", Interp(id), ".mp4">>

\* `https://storage.googleapis.com/${bucketName}/${fileName}`
PublicUrl(fileName) == <<"https://storage.googleapis.com/", bucketName, "/">> \o fileName

\* The error each download-and-store method throws from its catch block.
StoreError(v) ==
    IF v = "openai"
    THEN HttpException("Failed to upload video to storage", INTERNAL_SERVER_ERROR)
    ELSE HttpException("Failed to download and upload video from Kie", INTERNAL_SERVER_ERROR)

\* Mutant: only a rejected request counts as a failed download; the body of a
\* response that is not OK is stored like any other.
DownloadFails_OnlyThrow(v, ref, d) ==
    \/ d.kind = "throw"
    \/ v = "kie" /\ Falsy(ref)

\* The await of the download inside the try of streamVideoToBucket /
\* downloadToBucket (and of the monolith's two methods): a rejection, an
\* unparsable URL or a non-OK response ends in the catch block.
DownloadFails(v, ref, d) ==
    \/ d.kind = "throw"
    \/ v = "kie" /\ Falsy(ref)
    \/ v = "kie" /\ ~d.ok

\* What storing hands back: put says whether file.save was invoked, tooLarge
\* whether the payload-too-large exception was raised.
Stored(key, url) == [thrown |-> FALSE, key |-> key, url |-> url, err |-> NoError,
                     put |-> TRUE, tooLarge |-> FALSE]
StoreThrows(e, key, put, tooLarge) ==
    [thrown |-> TRUE, key |-> key, url |-> << >>, err |-> e, put |-> put,
     tooLarge |-> tooLarge]

\* Mutant: the size limit is exclusive.
TooLarge_Inclusive(n) == n >= MAX_VIDEO_SIZE

\* buffer.length > MAX_VIDEO_SIZE
TooLarge(n) == n > MAX_VIDEO_SIZE

\* VideoStorageService.saveVideo: the size check is outside its try; a failed
\* file.save becomes an internal error.
SaveVideo(n, fileName, putOk) ==
    IF TooLarge(n)
    THEN StoreThrows(HttpException("Video generated is too large. Maximum size is 100MB.",
                                   PAYLOAD_TOO_LARGE), << >>, FALSE, TRUE)
    ELSE IF putOk THEN Stored(fileName, PublicUrl(fileName))
    ELSE StoreThrows(HttpException("Failed to upload video to storage",
                                   INTERNAL_SERVER_ERROR), fileName, TRUE, FALSE)

\* The tail of OpenAiVideoService.streamVideoToBucket and
\* KieVideoService.downloadToBucket: `return this.storageService.saveVideo(..)`
\* is not awaited, so the promise is handed on from inside the try and its
\* rejection never reaches the catch block of the method.
ServicesStore(v, n, id, putOk) == SaveVideo(n, FileName(v, id), putOk)

\* The tail of the monolith's streamVideoToBucket and downloadKieVideoToBucket:
\* size check and file.save are awaited inside the try, every failure is
\* replaced by the method's own internal error.
MonolithStore(v, n, id, putOk) ==
    IF TooLarge(n) THEN StoreThrows(StoreError(v), << >>, FALSE, TRUE)
    ELSE IF putOk THEN Stored(FileName(v, id), PublicUrl(FileName(v, id)))
    ELSE StoreThrows(StoreError(v), FileName(v, id), TRUE, FALSE)

\* The tail of streamVideoToBucket in the oldest revision: file.save with no
\* size check, every failure replaced by the method's internal error.
LegacyStore(v, n, id, putOk) ==
    IF putOk THEN Stored(FileName(v, id), PublicUrl(FileName(v, id)))
    ELSE StoreThrows(StoreError(v), FileName(v, id), TRUE, FALSE)

Store(i, v, n, id, putOk) ==
    IF i = "legacy" THEN LegacyStore(v, n, id, putOk)
    ELSE IF i = "services" THEN ServicesStore(v, n, id, putOk)
    ELSE MonolithStore(v, n, id, putOk)

\* Mutant: the Kie result reports its model as unknown too.
Result_KieAllUnknown(v, vid, status, downloadUrl) ==
    IF v = "openai"
    THEN [videoId |-> vid.id, status |-> status, downloadUrl |-> downloadUrl,
          model |-> vid.model, size |-> vid.size, seconds |-> vid.seconds]
    ELSE [videoId |-> vid.id, status |-> status, downloadUrl |-> downloadUrl,
          model |-> "unknown", size |-> "unknown", seconds |-> "unknown"]

\* Mutant: the result names no job.
Result_NoVideoId(v, vid, status, downloadUrl) ==
    [videoId |-> "", status |-> status, downloadUrl |-> downloadUrl,
     model |-> vid.model, size |-> vid.size, seconds |-> vid.seconds]

\* The VideoGenerationResult literal of generateVideo / generateVideoWithKie.
NoResult == [videoId |-> Undefined, status |-> "", downloadUrl |-> << >>,
             model |-> "", size |-> "", seconds |-> ""]
Result(v, vid, status, downloadUrl) ==
    IF v = "openai"
    THEN [videoId |-> vid.id, status |-> status, downloadUrl |-> downloadUrl,
          model |-> vid.model, size |-> vid.size, seconds |-> vid.seconds]
    ELSE [videoId |-> vid.id, status |-> status, downloadUrl |-> downloadUrl,
          model |-> "veo3_fast", size |-> "unknown", seconds |-> "unknown"]

\* --------------------------------------------------------------- controller

\* const MAX_IMAGE_SIZE = 30 * 1024 * 1024, in both handlers.
MAX_IMAGE_SIZE == 30 * 1024 * 1024
BAD_REQUEST == 400

\* The sizes an uploaded image may have.
ImageSizes == (MAX_IMAGE_SIZE - MaxImageDelta) .. (MAX_IMAGE_SIZE + MaxImageDelta)

\* Mutant: an image of exactly the limit is rejected too.
ImageTooLarge_Inclusive(n) == n >= MAX_IMAGE_SIZE

\* if (image.size > MAX_IMAGE_SIZE)
ImageTooLarge(n) == n > MAX_IMAGE_SIZE

\* new BadRequestException(`Image file too large. Maximum size is 30MB.`)
ImageTooLargeError == HttpException("Image file too large. Maximum size is 30MB.", BAD_REQUEST)

\* ------------------------------------------------------------ configuration

\* The keys the services read from the ConfigService.
ConfigKeys == {"OPENAI_API_KEY", "GCP_STORAGE_BUCKET_NAME", "GCP_PROJECT_ID",
               "GCP_CREDENTIALS", "KIE_API_KEY", "KIE_VEO_URL", "KIE_STATUS_URL"}

\* The configurations considered: complete, or with one key absent.
Configs == {ConfigKeys} \cup {ConfigKeys \ {k} : k \in ConfigKeys}

\* The keys a revision needs for its work: the oldest one has no Kie variant.
RequiredKeys(i) ==
    IF i = "legacy"
    THEN {"OPENAI_API_KEY", "GCP_STORAGE_BUCKET_NAME", "GCP_PROJECT_ID", "GCP_CREDENTIALS"}
    ELSE ConfigKeys

\* Whether construction of the services throws.  The later revisions test
\* every key themselves and then load the credentials file, which may fail.
\* The oldest revision tests nothing: path.resolve of an absent credentials
\* path throws, an absent API key or project id is the library's to reject
\* (libraryThrows), and an absent bucket name is only stored.
ConstructorThrows(i, cfg, libraryThrows, credentialsLoad) ==
    IF i = "legacy"
    THEN \/ "GCP_CREDENTIALS" \notin cfg
         \/ ~credentialsLoad
         \/ libraryThrows /\ ~({"OPENAI_API_KEY", "GCP_PROJECT_ID"} \subseteq cfg)
    ELSE \/ ~(ConfigKeys \subseteq cfg)
         \/ ~credentialsLoad

\* The checks createVideoWithKie of the monolith repeats on every request.
KieConfigError(cfg) ==
    IF "KIE_API_KEY" \notin cfg
    THEN HttpException("Kie API key is not set", INTERNAL_SERVER_ERROR)
    ELSE IF "KIE_VEO_URL" \notin cfg
    THEN HttpException("Kie video URL is not set", INTERNAL_SERVER_ERROR)
    ELSE NoError

\* The checks checkKieVideoStatus of the monolith repeats on every status
\* check; the poll loop catches what they throw.
KieStatusConfigMissing(cfg) == ~({"KIE_API_KEY", "KIE_STATUS_URL"} \subseteq cfg)

\* ----------------------------------------------------- concurrent requests

\* The requests in flight at the same time, and the locals of one of them: the
\* local variables of generate and of the poller it awaits.
Execs == {"a", "b"}
NewExec(v) ==
    [pc |-> "createVideo", variant |-> v, imageName |-> "", imageUrl |-> NoImageUrl,
     video |-> NoVideo, submits |-> 0, checks |-> 0,
     polled |-> {}, source |-> Undefined, pollReturn |-> [kind |-> "none",
     value |-> NoPollValue, err |-> NoError], ref |-> Undefined, fetched |-> {},
     size |-> 0, putKey |-> << >>, outcome |-> [kind |-> "none", err |-> NoError,
     result |-> NoResult]]

\* The original file names of the images that requests bring.
ImageNames == {"image.png", "photo.jpg"}

\* The ids a provider gives to the jobs it creates, in order of creation.
JobIdPool == <<"job-1", "job-2", "job-3">>

\* What a provider may answer for a job for good: any answer that is not a
\* failed request.  Until then it answers that the job is in progress, and any
\* single request may be rejected.
Fates(v) == {r \in StatusResponses(v) : Reported(v, r) # "Transient"}
InProgress(v) ==
    IF v = "openai" THEN [kind |-> "status", status |-> "in_progress", hasError |-> FALSE]
    ELSE [kind |-> "http", ok |-> TRUE, code |-> 200, hasData |-> TRUE,
          successFlag |-> 0, resultUrls |-> NoUrls]
Rejected(v) ==
    IF v = "openai" THEN [kind |-> "throw", status |-> "", hasError |-> FALSE]
    ELSE [kind |-> "throw", ok |-> FALSE, code |-> 0, hasData |-> FALSE,
          successFlag |-> 0, resultUrls |-> NoUrls]

\* The locals of generate in one of the two implementations run side by side,
\* with the collaborator calls it has made, in order.
TwinStart(withImage) ==
    [pc |-> IF withImage THEN "uploadImage" ELSE "createVideo", video |-> NoVideo,
     checks |-> 0, pollReturn |-> [kind |-> "none", value |-> NoPollValue, err |-> NoError],
     ref |-> Undefined, size |-> 0, trace |-> << >>,
     outcome |-> [kind |-> "none", err |-> NoError, result |-> NoResult]]
NoTwins == [i \in Impls |-> [TwinStart(FALSE) EXCEPT !.pc = "none"]]

\* -------------------------------------------------------------------- state

VARIABLES
    impl,           \* which implementation runs
    variant,        \* which provider variant (entry point) was called
    image,          \* whether the request carries an input image
    pc,             \* the await the execution stands at
    now,            \* Date.now()
    maxWaitTime,    \* the poller's parameters
    pollInterval,
    deadline,       \* endTime / deadline of the poll loop
    submitted,      \* submit has returned (without throwing)
    video,          \* what submit returned (video.id is the job id)
    upload,         \* how the upload of the input image ended, and its URL
    imageUrls,      \* the imageUrls list of generateVideoWithKie
    request,        \* what the submit request carried
    lastReport,     \* what the status answer of the current loop turn stood for
    fetched,        \* the references a download was requested for
    putKey,         \* the object key handed to file.save of the video
    putUrl,         \* the URL the store returned for the video
    execs,          \* concurrent executions of generate, each with its own locals
    jobs,           \* the jobs the providers have created
    objects,        \* the bucket: which executions wrote each video key
    config,         \* the configuration keys that have a value
    allRejected,    \* every status request so far was rejected or unreadable
    caught,         \* the error the catch block of generate received
    twin,           \* the two implementations run side by side on the same answers
    imageSize,      \* image.size of the request's image as the controller sees it
    pollReturn,     \* how the poller ended: "none", "value" or "throw"
    ref,            \* the result reference handed to the download
    downloaded,     \* the download has delivered the artifact's bytes
    size,           \* byte length of the downloaded artifact
    outcome,        \* how generate ended: "none", "result" or "error"
    calls,          \* collaborator calls made so far, by kind
    putBytes,       \* bytes handed to file.save for the video
    tooLargeRaised, \* the payload-too-large exception was raised
    onlyPending,    \* every status answer so far stood for Pending
    firstTerminal   \* first status answer that stood for Completed or Failed

\* The locals of the one execution followed step by step.
soloVars == <<config, allRejected, caught, imageSize, impl, variant, image, pc, now, maxWaitTime, pollInterval, deadline, submitted,
          video, upload, imageUrls, request, lastReport, fetched, putKey, putUrl, pollReturn, ref, downloaded, size, outcome, calls, putBytes, tooLargeRaised,
          onlyPending, firstTerminal>>

vars == <<soloVars, execs, jobs, objects, twin>>

NoPollReturn == [kind |-> "none", value |-> NoPollValue, err |-> NoError]
NoOutcome == [kind |-> "none", err |-> NoError, result |-> NoResult]
Failure(e) == [kind |-> "error", err |-> e, result |-> NoResult]
Success(r) == [kind |-> "result", err |-> NoError, result |-> r]
NoCalls == [upload |-> 0, submit |-> 0, status |-> 0, wait |-> 0, download |-> 0, put |-> 0]
NoTerminal == [at |-> 0, status |-> "none"]

Count(kind) == [calls EXCEPT ![kind] = @ + 1]

\* The state shared by every start.
Fresh ==
    /\ now = 0
    /\ deadline = 0
    /\ submitted = FALSE
    /\ video = NoVideo
    /\ upload = NoUpload
    /\ imageUrls = << >>
    /\ request = NoRequest
    /\ lastReport = "none"
    /\ fetched = {}
    /\ putKey = << >>
    /\ putUrl = << >>
    /\ pollReturn = NoPollReturn
    /\ ref = Undefined
    /\ downloaded = FALSE
    /\ size = 0
    /\ outcome = NoOutcome
    /\ calls = NoCalls
    /\ putBytes = 0
    /\ tooLargeRaised = FALSE
    /\ onlyPending = TRUE
    /\ allRejected = TRUE
    /\ caught = NoError
    /\ firstTerminal = NoTerminal

\* No other execution is in flight, and every configuration key has a value.
Alone ==
    /\ config = ConfigKeys
    /\ imageSize = 0
    /\ twin = NoTwins
    /\ execs = [e \in Execs |-> NewExec("openai")]
    /\ jobs = << >>
    /\ objects = << >>

\* A request enters generateVideo or generateVideoWithKie.
Init ==
    /\ Alone
    /\ impl \in Impls
    /\ variant \in Variants
    /\ image \in BOOLEAN
    /\ pc = IF image THEN "uploadImage" ELSE "createVideo"
    /\ maxWaitTime = 0
    /\ pollInterval = 0
    /\ Fresh

\* The poller is called on its own with parameters of the caller's choice, as
\* the unit tests of pollForVideoCompletion do.
InitPoll ==
    /\ Alone
    /\ impl \in Impls
    /\ variant \in Variants
    /\ image = FALSE
    /\ pc = "pollEnter"
    /\ maxWaitTime \in {1000 * k : k \in 0..MaxWaitSteps}
    /\ pollInterval \in {500 * k : k \in 1..MaxIntervalSteps}
    /\ Fresh

\* A request enters generateVideo of the oldest revision.
InitLegacy ==
    /\ Alone
    /\ impl = "legacy"
    /\ variant = "openai"
    /\ image = FALSE
    /\ pc = "createVideo"
    /\ maxWaitTime = 0
    /\ pollInterval = 0
    /\ Fresh

\* pollForVideoCompletion of the oldest revision called on its own.
InitPollLegacy ==
    /\ Alone
    /\ impl = "legacy"
    /\ variant = "openai"
    /\ image = FALSE
    /\ pc = "pollEnter"
    /\ maxWaitTime \in {1000 * k : k \in 0..MaxWaitSteps}
    /\ pollInterval \in {500 * k : k \in 1..MaxIntervalSteps}
    /\ Fresh

\* Mutant: the failed step is tried again instead of ending generate.
Fail_Retry(e) ==
    /\ pc' = pc
    /\ UNCHANGED <<outcome, caught>>

\* The time a poll has spent beyond the nominal length of its waits: what its
\* status requests took and how late its timers fired.  The collaborators are
\* slow only as long as this stays within MaxDriftSteps quarter seconds.
Drift == now - (deadline - maxWaitTime) - calls.wait * pollInterval
MayTake(extra) == Drift + extra <= Ms(MaxDriftSteps)

\* What the per-request configuration checks of this request throw, if anything.
RequestConfigError ==
    IF impl = "monolith" /\ variant = "kie" THEN KieConfigError(config) ELSE NoError

\* generate ends by throwing e out of its try block.
Fail(e) ==
    /\ caught' = e
    /\ outcome' = Failure(OrchestratorCatch(variant, e))
    /\ pc' = "done"

\* ------------------------------------------------------------------ actions

\* createVideoWithKie of the monolith finds a Kie key absent, before it uploads
\* the image or sends the request: the request ends with that error.
ConfigCheckFails ==
    /\ Fail(RequestConfigError)
    /\ UNCHANGED <<imageSize, twin, allRejected, config, execs, jobs, objects, impl, variant, image, now, maxWaitTime,
                   pollInterval, deadline, submitted, video, upload, imageUrls, request,
                   lastReport, fetched, putKey, putUrl, pollReturn, ref, downloaded, size,
                   calls, putBytes, tooLargeRaised, onlyPending, firstTerminal>>

\* The services are constructed when the application starts; a constructor
\* that throws ends the application before any request.
Construct ==
    /\ pc = "construct"
    /\ \E libraryThrows \in BOOLEAN, credentialsLoad \in BOOLEAN :
         pc' = IF ConstructorThrows(impl, config, libraryThrows, credentialsLoad)
               THEN "startupFailed"
               ELSE IF image THEN "uploadImage" ELSE "createVideo"
    /\ UNCHANGED <<imageSize, twin, caught, allRejected, config, execs, jobs, objects, impl, variant, image, now, maxWaitTime,
                   pollInterval, deadline, submitted, video, upload, imageUrls, request,
                   lastReport, fetched, putKey, putUrl, pollReturn, ref, downloaded, size,
                   outcome, calls, putBytes, tooLargeRaised, onlyPending, firstTerminal>>

\* VideoController.generateVideo / generateVideoWithKie: the size test of the
\* image, then the call of the service with the same prompt and image.
ControllerGenerate ==
    /\ pc = "controller"
    /\ IF image /\ ImageTooLarge(imageSize)
       THEN /\ outcome' = Failure(ImageTooLargeError)
            /\ pc' = "done"
       ELSE /\ pc' = IF image THEN "uploadImage" ELSE "createVideo"
            /\ UNCHANGED outcome
    /\ UNCHANGED <<twin, imageSize, config, allRejected, caught, execs, jobs, objects, impl,
                   variant, image, now, maxWaitTime, pollInterval, deadline, submitted, video,
                   upload, imageUrls, request, lastReport, fetched, putKey, putUrl, pollReturn,
                   ref, downloaded, size, calls, putBytes, tooLargeRaised, onlyPending,
                   firstTerminal>>

\* uploadImage / uploadImageToBucket: file.save of the input image.  Only
\* generateVideoWithKie keeps the URL, in its imageUrls list.
UploadImageToBucket ==
    /\ calls' = Count("upload")
    /\ \E ok \in BOOLEAN :
         LET got == UploadImageResult(ok, now, "image.png") IN
         /\ upload' = [state |-> IF ok THEN "ok" ELSE "failed", url |-> got.value]
         /\ IF UploadAborts(got)
            THEN /\ Fail(got.err)
                 /\ UNCHANGED imageUrls
            ELSE /\ imageUrls' = IF variant = "kie" THEN Append(imageUrls, got.value)
                                 ELSE imageUrls
                 /\ pc' = "createVideo"
                 /\ UNCHANGED <<outcome, caught>>
    /\ UNCHANGED <<imageSize, twin, allRejected, config, execs, jobs, objects, fetched, putKey, putUrl, lastReport, request, submitted, downloaded, impl, variant, image, now, maxWaitTime, pollInterval, deadline, video,
                   pollReturn, ref, size, putBytes, tooLargeRaised, onlyPending,
                   firstTerminal>>

\* The image step of a request: the per-request configuration checks of the
\* variant's createVideo come first.
UploadImage ==
    /\ pc = "uploadImage"
    /\ IF RequestConfigError # NoError THEN ConfigCheckFails ELSE UploadImageToBucket

\* The request to the provider; on success generate calls the poller with the
\* variant's hardcoded parameters.
SendCreateRequest ==
    /\ calls' = Count("submit")
    /\ request' = RequestBody(variant, image, imageUrls)
    /\ \E got \in SubmitOutcomes(impl, variant) :
         /\ submitted' = ~got.thrown
         /\ IF SubmitAborts(got)
            THEN /\ Fail(got.err)
                 /\ UNCHANGED <<video, maxWaitTime, pollInterval>>
            ELSE /\ video' = got.value
                 /\ maxWaitTime' = PollParams(impl, variant).maxWaitTime
                 /\ pollInterval' = PollParams(impl, variant).pollInterval
                 /\ pc' = "pollEnter"
                 /\ UNCHANGED <<outcome, caught>>
    /\ UNCHANGED <<imageSize, twin, allRejected, config, execs, jobs, objects, fetched, putKey, putUrl, lastReport, upload, downloaded, impl, variant, image, now, deadline, imageUrls, pollReturn, ref, size,
                   putBytes, tooLargeRaised, onlyPending, firstTerminal>>

\* createVideo of the selected variant: its per-request configuration checks,
\* then the request.
CreateVideo ==
    /\ pc = "createVideo"
    /\ IF RequestConfigError # NoError THEN ConfigCheckFails ELSE SendCreateRequest

\* const endTime = Date.now() + maxWaitTime, on entry of the poller.
PollEnter ==
    /\ pc = "pollEnter"
    /\ deadline' = now + maxWaitTime
    /\ pc' = "pollLoop"
    /\ UNCHANGED <<imageSize, twin, caught, allRejected, config, execs, jobs, objects, fetched, putKey, putUrl, lastReport, upload, request, submitted, downloaded, impl, variant, image, now, maxWaitTime, pollInterval, video, imageUrls,
                   pollReturn, ref, size, outcome, calls, putBytes, tooLargeRaised,
                   onlyPending, firstTerminal>>

\* Mutant: when the loop test fails the poller asks for the video all the same,
\* handing back a completed job.
PollGuard_TimeoutCompletes ==
    /\ pc = "pollLoop"
    /\ IF LoopTest(impl, now, deadline, maxWaitTime)
       THEN /\ pc' = "checkStatus"
            /\ UNCHANGED pollReturn
       ELSE /\ pollReturn' = [kind |-> "value",
                              value |-> [status |-> "completed",
                                         videoUrls |-> Urls(<<"https://remote/a.mp4">>),
                                         hasError |-> FALSE, error |-> Undefined],
                              err |-> NoError]
            /\ pc' = "pollReturned"
    /\ UNCHANGED <<imageSize, twin, config, allRejected, caught, execs, jobs, objects, fetched, putKey, putUrl,
                   lastReport, upload, request, submitted, downloaded, impl, variant, image,
                   now, maxWaitTime, pollInterval, deadline, video, imageUrls, ref, size,
                   outcome, calls, putBytes, tooLargeRaised, onlyPending, firstTerminal>>

\* The loop test; when it fails the poller throws the timeout exception.
PollGuard ==
    /\ pc = "pollLoop"
    /\ IF LoopTest(impl, now, deadline, maxWaitTime)
       THEN /\ pc' = "checkStatus"
            /\ UNCHANGED pollReturn
       ELSE /\ pollReturn' = [kind |-> "throw", value |-> NoPollValue,
                              err |-> TimeoutError(variant)]
            /\ pc' = "pollReturned"
    /\ UNCHANGED <<imageSize, twin, caught, allRejected, config, execs, jobs, objects, fetched, putKey, putUrl, lastReport, upload, request, submitted, downloaded, impl, variant, image, now, maxWaitTime, pollInterval, deadline, video,
                   imageUrls, ref, size, outcome, calls, putBytes, tooLargeRaised,
                   onlyPending, firstTerminal>>

\* One status request and what the loop body makes of its answer.  The request
\* takes some time; the answer is the provider's to choose.
CheckStatus ==
    /\ pc = "checkStatus"
    /\ calls' = Count("status")
    /\ \E r \in StatusResponses(variant), l \in {t \in Latencies : MayTake(t)} :
         LET step == IF impl = "monolith" /\ variant = "kie" /\ KieStatusConfigMissing(config)
                     THEN PollWaits
                     ELSE PollStep(impl, variant, r)
             rep == Reported(variant, r)
         IN  /\ now' = now + l
             /\ lastReport' = rep
             /\ onlyPending' = (onlyPending /\ rep = "Pending")
             /\ allRejected' = (allRejected /\ rep = "Transient")
             /\ firstTerminal' =
                    IF firstTerminal.at = 0 /\ rep \in {"Completed", "Failed"}
                    THEN [at |-> calls.status + 1, status |-> rep]
                    ELSE firstTerminal
             /\ CASE step.act = "return" ->
                       /\ pollReturn' = [kind |-> "value", value |-> step.value,
                                         err |-> NoError]
                       /\ pc' = "pollReturned"
                  [] step.act = "throw" ->
                       /\ pollReturn' = [kind |-> "throw", value |-> NoPollValue,
                                         err |-> step.err]
                       /\ pc' = "pollReturned"
                  [] step.act = "wait" ->
                       /\ pc' = "delay"
                       /\ UNCHANGED pollReturn
    /\ UNCHANGED <<imageSize, twin, caught, config, execs, jobs, objects, fetched, putKey, putUrl, upload, request, submitted, downloaded, impl, variant, image, maxWaitTime, pollInterval, deadline, video,
                   imageUrls, ref, size, outcome, putBytes, tooLargeRaised>>

\* await this.delay(pollInterval): the timer fires at its due time or later.
Delay ==
    /\ pc = "delay"
    /\ calls' = Count("wait")
    /\ \E s \in {t \in TimerSlacks : MayTake(t)} :
         now' = now + DelayMs(pollInterval, calls.wait + 1) + s
    /\ lastReport' = "none"
    /\ pc' = "pollLoop"
    /\ UNCHANGED <<imageSize, twin, caught, allRejected, config, execs, jobs, objects, fetched, putKey, putUrl, upload, request, submitted, downloaded, impl, variant, image, maxWaitTime, pollInterval, deadline, video,
                   imageUrls, pollReturn, ref, size, outcome, putBytes, tooLargeRaised,
                   onlyPending, firstTerminal>>

\* Back in generate: the poller's exception goes to the catch block, its value
\* to the status dispatch.
OnPollReturn ==
    /\ pc = "pollReturned"
    /\ IF pollReturn.kind = "throw"
       THEN /\ Fail(pollReturn.err)
            /\ UNCHANGED ref
       ELSE LET d == Dispatch(impl, variant, pollReturn.value, video.id) IN
            IF d.act = "download"
            THEN /\ ref' = d.ref
                 /\ pc' = "download"
                 /\ UNCHANGED <<outcome, caught>>
            ELSE /\ Fail(d.err)
                 /\ UNCHANGED ref
    /\ UNCHANGED <<imageSize, twin, allRejected, config, execs, jobs, objects, fetched, putKey, putUrl, lastReport, upload, request, submitted, downloaded, impl, variant, image, now, maxWaitTime, pollInterval, deadline, video,
                   imageUrls, pollReturn, size, calls, putBytes, tooLargeRaised,
                   onlyPending, firstTerminal>>

\* The download inside streamVideoToBucket / downloadToBucket.  A reference
\* that is no URL makes fetch reject before any request leaves.
Download ==
    /\ pc = "download"
    /\ calls' = IF variant = "kie" /\ Falsy(ref) THEN calls ELSE Count("download")
    /\ fetched' = IF variant = "kie" /\ Falsy(ref) THEN fetched ELSE fetched \cup {ref}
    /\ \E d \in DownloadResponses(variant) :
         IF DownloadFails(variant, ref, d)
         THEN /\ Fail(StoreError(variant))
              /\ UNCHANGED <<downloaded, size>>
         ELSE /\ downloaded' = TRUE
              /\ size' = d.size
              /\ pc' = "saveVideo"
              /\ UNCHANGED <<outcome, caught>>
    /\ UNCHANGED <<imageSize, twin, allRejected, config, execs, jobs, objects, putKey, putUrl, lastReport, upload, request, submitted, impl, variant, image, now, maxWaitTime, pollInterval, deadline, video,
                   imageUrls, pollReturn, ref, putBytes, tooLargeRaised, onlyPending,
                   firstTerminal>>

\* Size check and file.save of the video, then the result literal.
SaveVideoStep ==
    /\ pc = "saveVideo"
    /\ \E putOk \in BOOLEAN :
         LET st == IF "GCP_STORAGE_BUCKET_NAME" \in config
                   THEN Store(impl, variant, size, video.id, putOk)
                   ELSE StoreThrows(StoreError(variant), << >>, FALSE, FALSE)
         IN
         /\ calls' = IF st.put THEN Count("put") ELSE calls
         /\ putBytes' = IF st.put THEN size ELSE putBytes
         /\ putKey' = st.key
         /\ putUrl' = st.url
         /\ tooLargeRaised' = st.tooLarge
         /\ IF st.thrown
            THEN Fail(st.err)
            ELSE /\ outcome' = Success(Result(variant, video, pollReturn.value.status, st.url))
                 /\ UNCHANGED caught
                 /\ pc' = "done"
    /\ UNCHANGED <<imageSize, twin, allRejected, config, execs, jobs, objects, fetched, lastReport, upload, request, submitted, downloaded, impl, variant, image, now, maxWaitTime, pollInterval, deadline, video,
                   imageUrls, pollReturn, ref, size, onlyPending, firstTerminal>>

Next ==
    \/ UploadImage
    \/ CreateVideo
    \/ PollEnter
    \/ PollGuard
    \/ CheckStatus
    \/ Delay
    \/ OnPollReturn
    \/ Download
    \/ SaveVideoStep

Spec == Init /\ [][Next]_vars

\* The poller alone.
NextPoll ==
    \/ PollEnter
    \/ PollGuard
    \/ CheckStatus
    \/ Delay

SpecPoll == InitPoll /\ [][NextPoll]_vars

\* The poller alone, when every awaited status request settles and every timer
\* fires: the event loop then runs the continuation.
SpecPollFair == InitPoll /\ [][NextPoll]_vars /\ WF_vars(NextPoll)

\* The application from its start: the services are constructed from the
\* configuration found, then a request enters.
InitStartup ==
    /\ config \in Configs
    /\ execs = [e \in Execs |-> NewExec("openai")]
    /\ twin = NoTwins
    /\ imageSize = 0
    /\ jobs = << >>
    /\ objects = << >>
    /\ impl \in Revisions
    /\ variant \in (IF impl = "legacy" THEN {"openai"} ELSE Variants)
    /\ image \in (IF impl = "legacy" THEN {FALSE} ELSE BOOLEAN)
    /\ pc = "construct"
    /\ maxWaitTime = 0
    /\ pollInterval = 0
    /\ Fresh

NextStartup ==
    \/ Construct
    \/ Next

SpecStartup == InitStartup /\ [][NextStartup]_vars

\* A request arrives at one of the two routes of the controller.
InitController ==
    /\ config = ConfigKeys
    /\ twin = NoTwins
    /\ execs = [e \in Execs |-> NewExec("openai")]
    /\ jobs = << >>
    /\ objects = << >>
    /\ impl \in Impls
    /\ variant \in Variants
    /\ image \in BOOLEAN
    /\ imageSize \in (IF image THEN ImageSizes ELSE {0})
    /\ pc = "controller"
    /\ maxWaitTime = 0
    /\ pollInterval = 0
    /\ Fresh

NextController ==
    \/ ControllerGenerate
    \/ Next

SpecController == InitController /\ [][NextController]_vars

\* The same, over all three revisions of VideoService.
SpecRevisions == (Init \/ InitLegacy) /\ [][Next]_vars
SpecPollRevisions == (InitPoll \/ InitPollLegacy) /\ [][NextPoll]_vars

\* ------------------------------------------------- concurrent executions

\* Several requests are in flight; the event loop runs one of them from one
\* await to the next, in any order.  The clock is left out: a poll makes at
\* least one status check and may time out before any later one.
InitConc ==
    /\ impl \in Impls
    /\ config = ConfigKeys
    /\ execs \in [Execs -> {NewExec(v) : v \in Variants}]
    /\ twin = NoTwins
    /\ imageSize = 0
    /\ jobs = << >>
    /\ objects = << >>
    /\ variant = "openai"
    /\ image = FALSE
    /\ pc = "done"
    /\ maxWaitTime = 0
    /\ pollInterval = 0
    /\ Fresh

\* The catch block of generate, for execution x.
ExecFails(x, e) ==
    [x EXCEPT !.pc = "done", !.outcome = Failure(OrchestratorCatch(x.variant, e))]

\* What the provider of variant v answers to a status request for job id.
Answers(v, id) ==
    IF id \in DOMAIN jobs /\ jobs[id].variant = v
    THEN {InProgress(v), jobs[id].fate, Rejected(v)}
    ELSE {Rejected(v)}

\* Mutant: the job to poll is kept in a field of the shared service object,
\* which holds the job created last.
PollTarget_LastCreated(x) ==
    IF jobs = << >> THEN x.video.id ELSE JobIdPool[Cardinality(DOMAIN jobs)]

\* pollForCompletion(video.id, ..) / pollForCompletion(taskId, ..): the job id
\* is a local constant of generate, handed on as an argument.
PollTarget(x) == x.video.id

\* Mutant: generate looks for a job of the same variant first and, when the
\* provider has one, takes it over without a submit call.
ConcCreateVideo_Reuse(e) ==
    LET x == execs[e]
        same == {id \in DOMAIN jobs : jobs[id].variant = x.variant}
    IN
    /\ x.pc = "createVideo"
    /\ \E got \in SubmitOutcomes(impl, x.variant), fate \in Fates(x.variant) :
         LET created == ~got.thrown /\ ~Falsy(got.value.id)
             id == JobIdPool[Cardinality(DOMAIN jobs) + 1]
         IN  IF same # {}
             THEN /\ jobs' = jobs
                  /\ \E old \in same :
                       execs' = [execs EXCEPT ![e] =
                           [x EXCEPT !.pc = "pollLoop",
                                     !.video = [NoVideo EXCEPT !.id = old]]]
             ELSE /\ jobs' = IF created
                             THEN jobs @@ (id :> [variant |-> x.variant, fate |-> fate,
                                                  owner |-> e])
                             ELSE jobs
                  /\ execs' = [execs EXCEPT ![e] =
                         IF SubmitAborts(got) THEN ExecFails([x EXCEPT !.submits = @ + 1], got.err)
                         ELSE [x EXCEPT !.pc = "pollLoop", !.submits = @ + 1,
                                        !.video = IF created THEN [got.value EXCEPT !.id = id]
                                                  ELSE got.value]]
    /\ UNCHANGED <<twin, soloVars, objects>>

\* createVideo of execution e: one submit call, whatever the other executions
\* have submitted; the provider creates a job when it answers with an id.
ConcCreateVideo(e) ==
    LET x == execs[e] IN
    /\ x.pc = "createVideo"
    /\ \E got \in SubmitOutcomes(impl, x.variant), fate \in Fates(x.variant) :
         LET created == ~got.thrown /\ ~Falsy(got.value.id)
             id == JobIdPool[Cardinality(DOMAIN jobs) + 1]
         IN  /\ jobs' = IF created
                        THEN jobs @@ (id :> [variant |-> x.variant, fate |-> fate,
                                             owner |-> e])
                        ELSE jobs
             /\ execs' = [execs EXCEPT ![e] =
                    IF SubmitAborts(got) THEN ExecFails([x EXCEPT !.submits = @ + 1], got.err)
                    ELSE [x EXCEPT !.pc = "pollLoop", !.submits = @ + 1,
                                   !.video = IF created THEN [got.value EXCEPT !.id = id]
                                             ELSE got.value]]
    /\ UNCHANGED <<twin, soloVars, objects>>

\* One turn of the poll loop of execution e: the status check and, when the
\* job has not ended, the wait.
ConcCheckStatus(e) ==
    LET x == execs[e]
        id == PollTarget(x)
    IN
    /\ x.pc = "pollLoop"
    /\ x.checks < MaxConcChecks
    /\ \E r \in Answers(x.variant, id) :
         LET step == PollStep(impl, x.variant, r)
             polled == [x EXCEPT !.checks = @ + 1, !.polled = @ \cup {id}]
         IN  execs' = [execs EXCEPT ![e] =
                CASE step.act = "return" ->
                       [polled EXCEPT !.pc = "pollReturned", !.source = id,
                                      !.pollReturn = [kind |-> "value", value |-> step.value,
                                                      err |-> NoError]]
                  [] step.act = "throw" ->
                       [polled EXCEPT !.pc = "pollReturned",
                                      !.pollReturn = [kind |-> "throw", value |-> NoPollValue,
                                                      err |-> step.err]]
                  [] step.act = "wait" -> polled]
    /\ UNCHANGED <<twin, soloVars, jobs, objects>>

\* The loop guard of execution e finds the deadline passed.
ConcTimeout(e) ==
    LET x == execs[e] IN
    /\ x.pc = "pollLoop"
    /\ x.checks >= 1
    /\ execs' = [execs EXCEPT ![e] =
            [x EXCEPT !.pc = "pollReturned",
                      !.pollReturn = [kind |-> "throw", value |-> NoPollValue,
                                      err |-> TimeoutError(x.variant)]]]
    /\ UNCHANGED <<twin, soloVars, jobs, objects>>

\* Execution e back in generate after its poll.
ConcOnPollReturn(e) ==
    LET x == execs[e] IN
    /\ x.pc = "pollReturned"
    /\ execs' = [execs EXCEPT ![e] =
            IF x.pollReturn.kind = "throw" THEN ExecFails(x, x.pollReturn.err)
            ELSE LET d == Dispatch(impl, x.variant, x.pollReturn.value, x.video.id) IN
                 IF d.act = "download" THEN [x EXCEPT !.pc = "download", !.ref = d.ref]
                 ELSE ExecFails(x, d.err)]
    /\ UNCHANGED <<twin, soloVars, jobs, objects>>

\* The download of execution e.
ConcDownload(e) ==
    LET x == execs[e] IN
    /\ x.pc = "download"
    /\ \E d \in DownloadResponses(x.variant) :
         LET asked == IF x.variant = "kie" /\ Falsy(x.ref) THEN x
                      ELSE [x EXCEPT !.fetched = @ \cup {x.ref}]
         IN  execs' = [execs EXCEPT ![e] =
                IF DownloadFails(x.variant, x.ref, d)
                THEN ExecFails(asked, StoreError(x.variant))
                ELSE [asked EXCEPT !.pc = "saveVideo", !.size = d.size]]
    /\ UNCHANGED <<twin, soloVars, jobs, objects>>

\* Size check and file.save of execution e, then its result.
ConcSaveVideo(e) ==
    LET x == execs[e] IN
    /\ x.pc = "saveVideo"
    /\ \E putOk \in BOOLEAN :
         LET st == Store(impl, x.variant, x.size, x.video.id, putOk) IN
         /\ objects' = IF st.put /\ ~st.thrown
                       THEN [k \in DOMAIN objects \cup {st.key} |->
                               (IF k \in DOMAIN objects THEN objects[k] ELSE {})
                               \cup (IF k = st.key THEN {e} ELSE {})]
                       ELSE objects
         /\ execs' = [execs EXCEPT ![e] =
                IF st.thrown THEN ExecFails(x, st.err)
                ELSE [x EXCEPT !.pc = "done", !.putKey = st.key,
                               !.outcome = Success(Result(x.variant, x.video,
                                                          x.pollReturn.value.status,
                                                          st.url))]]
    /\ UNCHANGED <<twin, soloVars, jobs>>

\* Requests with an image enter generate at any time, one after the other or
\* in the same millisecond.
InitImages ==
    /\ impl \in Impls
    /\ config = ConfigKeys
    /\ execs \in [Execs -> {[NewExec(v) EXCEPT !.pc = "uploadImage", !.imageName = n] :
                               v \in Variants, n \in ImageNames}]
    /\ twin = NoTwins
    /\ imageSize = 0
    /\ jobs = << >>
    /\ objects = << >>
    /\ variant = "openai"
    /\ image = TRUE
    /\ pc = "done"
    /\ maxWaitTime = 0
    /\ pollInterval = 0
    /\ Fresh

\* Date.now() moves on by a millisecond.
Tick ==
    /\ now < MaxTicks
    /\ now' = now + 1
    /\ UNCHANGED <<imageSize, twin, config, allRejected, caught, impl, variant, image, pc, maxWaitTime,
                   pollInterval, deadline, submitted, video, upload, imageUrls, request,
                   lastReport, fetched, putKey, putUrl, pollReturn, ref, downloaded, size,
                   outcome, calls, putBytes, tooLargeRaised, onlyPending, firstTerminal,
                   execs, jobs, objects>>

\* uploadImage of execution e: the key is made of the clock's reading and the
\* file's original name, and file.save writes the object under it.
ConcUploadImage(e) ==
    LET x == execs[e] IN
    /\ x.pc = "uploadImage"
    /\ \E ok \in BOOLEAN :
         LET got == UploadImageResult(ok, now, x.imageName) IN
         /\ objects' = IF ok
                       THEN [k \in DOMAIN objects \cup {got.value} |->
                               (IF k \in DOMAIN objects THEN objects[k] ELSE {})
                               \cup (IF k = got.value THEN {e} ELSE {})]
                       ELSE objects
         /\ execs' = [execs EXCEPT ![e] =
                IF UploadAborts(got) THEN ExecFails(x, got.err)
                ELSE [x EXCEPT !.pc = "createVideo", !.imageUrl = got.value]]
    /\ UNCHANGED <<twin, soloVars, jobs>>

NextImages ==
    \/ Tick
    \/ \E e \in Execs : ConcUploadImage(e)

SpecImages == InitImages /\ [][NextImages]_vars

NextConc ==
    \E e \in Execs :
        \/ ConcCreateVideo(e)
        \/ ConcCheckStatus(e)
        \/ ConcTimeout(e)
        \/ ConcOnPollReturn(e)
        \/ ConcDownload(e)
        \/ ConcSaveVideo(e)

SpecConc == InitConc /\ [][NextConc]_vars

\* ------------------------------------------- the two implementations compared

\* Every way the submit call of implementation i ends on the provider's answer r.
SubmitOf(i, v, r) ==
    IF v = "openai" THEN OpenAiCreateVideo(r)
    ELSE IF i = "services" THEN AsJob(KieCreateVideo(r))
    ELSE AsJob(CreateVideoWithKie(r))

CreateResponses(v) == IF v = "openai" THEN OpenAiCreateResponses ELSE KieCreateResponses

\* Execution x has made the collaborator call c; it ends in generate's catch.
Called(x, c) == [x EXCEPT !.trace = Append(@, c)]
TwinFails(x, e) ==
    [x EXCEPT !.pc = "done", !.outcome = Failure(OrchestratorCatch(variant, e))]

\* The steps of generate in implementation i, from the locals x and the answer
\* of the collaborator.
TwinUploaded(x, ok) ==
    LET got == UploadImageResult(ok, 0, "image.png")
        y == Called(x, "upload")
    IN  IF UploadAborts(got) THEN TwinFails(y, got.err) ELSE [y EXCEPT !.pc = "createVideo"]

TwinSubmitted(i, x, r) ==
    LET got == SubmitOf(i, variant, r)
        y == Called(x, "submit")
    IN  IF SubmitAborts(got) THEN TwinFails(y, got.err)
        ELSE [y EXCEPT !.pc = "pollLoop", !.video = got.value]

TwinChecked(i, x, r) ==
    LET step == PollStep(i, variant, r)
        y == [Called(x, "status") EXCEPT !.checks = @ + 1]
    IN  CASE step.act = "return" ->
               [y EXCEPT !.pc = "pollReturned",
                         !.pollReturn = [kind |-> "value", value |-> step.value,
                                         err |-> NoError]]
          [] step.act = "throw" ->
               [y EXCEPT !.pc = "pollReturned",
                         !.pollReturn = [kind |-> "throw", value |-> NoPollValue,
                                         err |-> step.err]]
          [] step.act = "wait" -> y

TwinTimedOut(x) ==
    [x EXCEPT !.pc = "pollReturned",
              !.pollReturn = [kind |-> "throw", value |-> NoPollValue,
                              err |-> TimeoutError(variant)]]

TwinDispatched(i, x) ==
    IF x.pollReturn.kind = "throw" THEN TwinFails(x, x.pollReturn.err)
    ELSE LET d == Dispatch(i, variant, x.pollReturn.value, x.video.id) IN
         IF d.act = "download" THEN [x EXCEPT !.pc = "download", !.ref = d.ref]
         ELSE TwinFails(x, d.err)

TwinDownloaded(x, d) ==
    LET asked == IF variant = "kie" /\ Falsy(x.ref) THEN x ELSE Called(x, "download") IN
    IF DownloadFails(variant, x.ref, d) THEN TwinFails(asked, StoreError(variant))
    ELSE [asked EXCEPT !.pc = "saveVideo", !.size = d.size]

TwinStored(i, x, putOk) ==
    LET st == Store(i, variant, x.size, x.video.id, putOk)
        y == IF st.put THEN Called(x, "put") ELSE x
    IN  IF st.thrown THEN TwinFails(y, st.err)
        ELSE [y EXCEPT !.pc = "done",
                       !.outcome = Success(Result(variant, x.video,
                                                  x.pollReturn.value.status, st.url))]

\* The same request enters both implementations.
InitTwin ==
    /\ config = ConfigKeys
    /\ execs = [e \in Execs |-> NewExec("openai")]
    /\ imageSize = 0
    /\ jobs = << >>
    /\ objects = << >>
    /\ impl = "services"
    /\ variant \in Variants
    /\ image \in BOOLEAN
    /\ pc = "done"
    /\ maxWaitTime = 0
    /\ pollInterval = 0
    /\ Fresh
    /\ twin = [i \in Impls |-> TwinStart(image)]

\* The implementations at step s take it together, on the same answer.
At(s) == {i \in Impls : twin[i].pc = s}

TwinUploadImage ==
    /\ At("uploadImage") # {}
    /\ \E ok \in BOOLEAN :
         twin' = [i \in Impls |-> IF i \in At("uploadImage") THEN TwinUploaded(twin[i], ok)
                                  ELSE twin[i]]
    /\ UNCHANGED <<soloVars, execs, jobs, objects>>

TwinCreateVideo ==
    /\ At("createVideo") # {}
    /\ \E r \in CreateResponses(variant) :
         twin' = [i \in Impls |-> IF i \in At("createVideo") THEN TwinSubmitted(i, twin[i], r)
                                  ELSE twin[i]]
    /\ UNCHANGED <<soloVars, execs, jobs, objects>>

TwinCheckStatus ==
    /\ At("pollLoop") # {}
    /\ \A i \in At("pollLoop") : twin[i].checks < MaxConcChecks
    /\ \E r \in StatusResponses(variant) :
         twin' = [i \in Impls |-> IF i \in At("pollLoop") THEN TwinChecked(i, twin[i], r)
                                  ELSE twin[i]]
    /\ UNCHANGED <<soloVars, execs, jobs, objects>>

TwinTimeout ==
    /\ At("pollLoop") # {}
    /\ twin' = [i \in Impls |-> IF i \in At("pollLoop") THEN TwinTimedOut(twin[i])
                                ELSE twin[i]]
    /\ UNCHANGED <<soloVars, execs, jobs, objects>>

TwinOnPollReturn ==
    /\ At("pollReturned") # {}
    /\ twin' = [i \in Impls |-> IF i \in At("pollReturned") THEN TwinDispatched(i, twin[i])
                                ELSE twin[i]]
    /\ UNCHANGED <<soloVars, execs, jobs, objects>>

TwinDownload ==
    /\ At("download") # {}
    /\ \E d \in DownloadResponses(variant) :
         twin' = [i \in Impls |-> IF i \in At("download") THEN TwinDownloaded(twin[i], d)
                                  ELSE twin[i]]
    /\ UNCHANGED <<soloVars, execs, jobs, objects>>

TwinSaveVideo ==
    /\ At("saveVideo") # {}
    /\ \E putOk \in BOOLEAN :
         twin' = [i \in Impls |-> IF i \in At("saveVideo") THEN TwinStored(i, twin[i], putOk)
                                  ELSE twin[i]]
    /\ UNCHANGED <<soloVars, execs, jobs, objects>>

NextTwin ==
    \/ TwinUploadImage
    \/ TwinCreateVideo
    \/ TwinCheckStatus
    \/ TwinTimeout
    \/ TwinOnPollReturn
    \/ TwinDownload
    \/ TwinSaveVideo

SpecTwin == InitTwin /\ [][NextTwin]_vars

\* ------------------------------------------------------------------- claims

\* A string given as its pieces is not the empty string.
NonEmpty(pieces) == \E k \in 1..Len(pieces) : pieces[k] # ""

\* ceil(a / b) for b > 0.
CeilDiv(a, b) == (a + b - 1) \div b

\* The poller ended by throwing its timeout exception.
TimedOut == pollReturn.kind = "throw" /\ pollReturn.err = TimeoutError(variant)

\* The poller returned Completed and, for Kie, a list holding a usable reference.
CompletedWithRef ==
    /\ pollReturn.kind = "value"
    /\ pollReturn.value.status = "completed"
    /\ variant = "kie" =>
          /\ pollReturn.value.videoUrls.defined
          /\ \E k \in 1..Len(pollReturn.value.videoUrls.urls) :
                ~Falsy(pollReturn.value.videoUrls.urls[k])

\* The error generate throws when the provider declared the job failed.
GenerationFailed(v) ==
    IF v = "openai" THEN HttpException("Video generation failed", INTERNAL_SERVER_ERROR)
    ELSE HttpException("Kie video generation failed", INTERNAL_SERVER_ERROR)

\* C1: generate returns a result only if the poller returned Completed with a
\* usable result reference, and the result's downloadUrl is then non-empty; an
\* execution that ends in any other way ends with an error.
C1_ResultOnlyWhenCompleted ==
    /\ outcome.kind = "result" =>
          /\ CompletedWithRef
          /\ firstTerminal.status = "Completed"
          /\ NonEmpty(outcome.result.downloadUrl)
    /\ (pc = "done" /\ ~CompletedWithRef) => outcome.kind = "error"

C1_Witness ==
    /\ outcome.kind = "result"
    /\ variant = "kie"
    /\ Len(pollReturn.value.videoUrls.urls) = 2

\* C2: the poller returns at the first status check whose answer is Completed
\* or Failed: the number of checks made is the position of that answer, no
\* wait follows it, and the value returned carries that status.
C2_ReturnsAtFirstTerminal ==
    firstTerminal.at # 0 =>
        /\ pc = "pollReturned"
        /\ pollReturn.kind = "value"
        /\ pollReturn.value.status =
              (IF firstTerminal.status = "Completed" THEN "completed" ELSE "failed")
        /\ calls.status = firstTerminal.at
        /\ calls.wait = firstTerminal.at - 1

C2_Witness ==
    /\ firstTerminal.at = 3
    /\ pc = "pollReturned"
    /\ calls.wait = 2

\* C3: a status check that fails with a transient error never ends the poll:
\* the only exception that leaves the poller is the timeout, thrown once the
\* deadline has passed.
C3_TransientNeverAborts ==
    pollReturn.kind = "throw" => (TimedOut /\ now >= deadline)

\* C4: when no status check reported Completed or Failed, generate fails with
\* the timeout error (408), for both variants.
C4_NoTerminalMeansTimeout ==
    (pc = "done" /\ pollReturn.kind # "none" /\ firstTerminal.at = 0) =>
        /\ outcome.kind = "error"
        /\ outcome.err.status = REQUEST_TIMEOUT

\* Time the poll spent beyond its waits' nominal length: latency of the status
\* requests and lateness of the timers.
ExtraTime == now - (deadline - maxWaitTime) - calls.wait * pollInterval

\* C5 as stated: when every status check answers Pending the poller makes
\* exactly ceil(maxWaitTime / pollInterval) checks before the timeout.
C5_ExactlyCeilChecks ==
    (TimedOut /\ onlyPending) => calls.status = CeilDiv(maxWaitTime, pollInterval)

\* C5 amended: when every status check answers Pending the poller makes at most
\* ceil(maxWaitTime / pollInterval) checks before the timeout, and exactly that
\* many when the status requests take no time and the timers fire on time.
C5_AtMostCeilChecks ==
    (TimedOut /\ onlyPending) =>
        /\ calls.status <= CeilDiv(maxWaitTime, pollInterval)
        /\ ExtraTime = 0 => calls.status = CeilDiv(maxWaitTime, pollInterval)

C5_Witness ==
    /\ TimedOut
    /\ onlyPending
    /\ maxWaitTime = 3000
    /\ pollInterval = 1000
    /\ calls.status = 3

\* C6: when the first terminal status is Failed, generate fails with the
\* generation-failure error, an internal error (500), without any download or
\* put and without a result.  (The monolith's generateVideo reads the message
\* of an absent error object and then fails with its generic internal error.)
C6_FailedMeansGenerationFailure ==
    (pc = "done" /\ firstTerminal.status = "Failed") =>
        /\ outcome.kind = "error"
        /\ outcome.err.status = INTERNAL_SERVER_ERROR
        /\ calls.download = 0
        /\ calls.put = 0
        /\ ~(impl = "monolith" /\ variant = "openai" /\ ~pollReturn.value.hasError)
              => outcome.err = GenerationFailed(variant)

C6_Witness ==
    /\ pc = "done"
    /\ firstTerminal = [at |-> 2, status |-> "Failed"]
    /\ outcome.kind = "error"

\* C7: no status check is made unless submit has returned successfully, and an
\* execution whose submit failed ends with no status check, download or put.
C7_NoPollWithoutSubmit ==
    /\ calls.status > 0 => (submitted /\ calls.submit = 1)
    /\ (calls.submit = 1 /\ ~submitted) =>
          /\ pc = "done"
          /\ outcome.kind = "error"
          /\ calls.status = 0
          /\ calls.download = 0
          /\ calls.put = 0

C7_Witness ==
    /\ pc = "done"
    /\ calls.submit = 1
    /\ ~submitted

\* C8: submit never hands back an undefined or empty job id that is then polled.
C8_NoPollOfMissingJobId ==
    calls.status > 0 => ~Falsy(video.id)

C10_OnlyTimeoutOrInternal ==
    (pc = "done" /\ outcome.kind = "error") =>
        /\ outcome.err.status \in {REQUEST_TIMEOUT, INTERNAL_SERVER_ERROR}
        /\ outcome.err.status = REQUEST_TIMEOUT <=> TimedOut

\* C11: a supplied input image is uploaded exactly once, the upload has
\* completed when submit is invoked, and the Kie request carries the URL the
\* upload returned as its only image reference; without an image nothing is
\* uploaded and the Kie request carries no image reference.
C11_ImageUploadedOnceBeforeSubmit ==
    /\ calls.upload <= 1
    /\ ~image => (calls.upload = 0 /\ upload.state = "none")
    /\ (image /\ calls.submit > 0) => (calls.upload = 1 /\ upload.state = "ok")
    /\ (image /\ pc = "done") => calls.upload = 1
    /\ (variant = "kie" /\ calls.submit > 0) =>
          request.imageUrls = (IF image THEN Urls(<<upload.url>>) ELSE NoUrls)

C11_Witness ==
    /\ variant = "kie"
    /\ image
    /\ calls.submit = 1
    /\ upload.state = "ok"
    /\ request.imageUrls = Urls(<<upload.url>>)

\* C12: when the upload of the input image fails, generate ends with an error
\* and submit is never invoked.
C12_UploadFailureAborts ==
    upload.state = "failed" =>
        /\ pc = "done"
        /\ outcome.kind = "error"
        /\ outcome.err.status = INTERNAL_SERVER_ERROR
        /\ calls.submit = 0
        /\ ~submitted

C12_Witness ==
    /\ upload.state = "failed"
    /\ pc = "done"
    /\ calls.upload = 1

\* C13: a status answer whose code is outside the known vocabulary (an OpenAI
\* status other than queued, in_progress, completed, failed; a Kie successFlag
\* outside 0..3) is handled as Pending: the loop turn goes on to its wait, the
\* poller has returned nothing and generate has no outcome.
C13_UnknownStatusIsPending ==
    lastReport = "Unknown" =>
        /\ pc = "delay"
        /\ pollReturn = NoPollReturn
        /\ outcome = NoOutcome

C13_Witness ==
    /\ lastReport = "Unknown"
    /\ pc = "delay"
    /\ calls.status >= 2
    /\ now < deadline

\* The flow in which every step succeeded: submit, a poll that returned
\* completed, the download, and the put of the video.
SuccessfulFlow ==
    /\ pc = "done"
    /\ submitted
    /\ pollReturn.kind = "value"
    /\ pollReturn.value.status = "completed"
    /\ downloaded
    /\ calls.put = 1
    /\ NonEmpty(putUrl)

\* C14: after a successful flow generate returns a result whose status is
\* "completed", whose videoId is the job id submit returned, and whose
\* downloadUrl is the non-empty URL the store returned for the put of that
\* job's video.
C14_SuccessfulResult ==
    SuccessfulFlow =>
        /\ outcome.kind = "result"
        /\ outcome.result.status = "completed"
        /\ outcome.result.videoId = video.id
        /\ outcome.result.downloadUrl = putUrl
        /\ NonEmpty(outcome.result.downloadUrl)
        /\ putKey = FileName(variant, video.id)

C14_Witness ==
    /\ SuccessfulFlow
    /\ outcome.kind = "result"
    /\ ~Falsy(video.id)
    /\ outcome.result.videoId = video.id

\* C15 as stated: the timeout error generate ends with carries the id of the
\* job that was being polled.
C15_TimeoutCarriesJobId ==
    (pc = "done" /\ TimedOut /\ ~Falsy(video.id)) => Carries(outcome.err, video.id)

\* C15, amended: the timeout error reaches the caller of generate as the poller
\* threw it, an HttpException with status 408 and the fixed message of the
\* variant, which does not hold the job id.
C15_TimeoutErrorIsFixed ==
    (pc = "done" /\ TimedOut) =>
        /\ outcome.kind = "error"
        /\ outcome.err.http
        /\ outcome.err.status = REQUEST_TIMEOUT
        /\ outcome.err.msg = (IF variant = "openai"
                              THEN "Video generation timeout - please try again"
                              ELSE "Kie video generation timeout - please try again")
        /\ ~Carries(outcome.err, video.id)

C15_Witness ==
    /\ pc = "done"
    /\ TimedOut
    /\ ~Falsy(video.id)
    /\ now >= deadline
    /\ outcome.err.status = REQUEST_TIMEOUT

\* C16 as stated: the error generate ends with after the poller returned Failed
\* carries the failure reason the provider gave.
C16_FailureCarriesReason ==
    (pc = "done" /\ pollReturn.kind = "value" /\ pollReturn.value.status = "failed"
        /\ pollReturn.value.hasError) =>
        Carries(outcome.err, pollReturn.value.error)

\* C16, amended: after the poller returned Failed with the provider's reason,
\* generate ends with an HttpException with status 500 and the fixed message
\* of the variant, which does not hold the reason.
C16_FailureErrorIsFixed ==
    (pc = "done" /\ pollReturn.kind = "value" /\ pollReturn.value.status = "failed"
        /\ pollReturn.value.hasError) =>
        /\ outcome.kind = "error"
        /\ outcome.err.http
        /\ outcome.err.status = INTERNAL_SERVER_ERROR
        /\ outcome.err.msg = (IF variant = "openai" THEN "Video generation failed"
                              ELSE "Kie video generation failed")
        /\ ~Carries(outcome.err, pollReturn.value.error)

C16_Witness ==
    /\ pc = "done"
    /\ pollReturn.kind = "value"
    /\ pollReturn.value.status = "failed"
    /\ pollReturn.value.error = ProviderReason
    /\ outcome.kind = "error"

\* The Kie poller returned Completed with two or more result references.
SeveralRefs ==
    /\ variant = "kie"
    /\ pollReturn.kind = "value"
    /\ pollReturn.value.status = "completed"
    /\ pollReturn.value.videoUrls.defined
    /\ Len(pollReturn.value.videoUrls.urls) >= 2

\* C17: when Kie reports Completed with several result references, only the
\* first one is ever requested, and a video that was downloaded and stored is
\* the one behind the first reference.
C17_OnlyFirstReference ==
    SeveralRefs =>
        /\ fetched \subseteq {pollReturn.value.videoUrls.urls[1]}
        /\ calls.download <= 1
        /\ downloaded => fetched = {pollReturn.value.videoUrls.urls[1]}
        /\ calls.put > 0 => (downloaded /\ putBytes = size)

C17_Witness ==
    /\ SeveralRefs
    /\ pc = "done"
    /\ outcome.kind = "result"
    /\ calls.put = 1
    /\ fetched = {pollReturn.value.videoUrls.urls[1]}

\* C18: within one execution submit, image upload, download and video put are
\* each invoked at most once (only the status check repeats), and a failed
\* upload, submit or download ends generate with an error at once, no later
\* step being taken.
C18_AtMostOnce ==
    /\ calls.upload <= 1
    /\ calls.submit <= 1
    /\ calls.download <= 1
    /\ calls.put <= 1
    /\ upload.state = "failed" =>
          (pc = "done" /\ outcome.kind = "error" /\ calls.submit = 0)
    /\ (calls.submit = 1 /\ ~submitted) =>
          (pc = "done" /\ outcome.kind = "error" /\ calls.status = 0)
    /\ (calls.download = 1 /\ ~downloaded) =>
          (pc = "done" /\ outcome.kind = "error" /\ calls.put = 0)

C18_Witness ==
    /\ pc = "done"
    /\ calls.upload = 1
    /\ calls.submit = 1
    /\ calls.status >= 3
    /\ calls.download = 1
    /\ calls.put = 1

\* A key of the form videos/<providerTag>-<jobId>.mp4.
TaggedKey(key, id) ==
    /\ Len(key) = 4
    /\ key[1] = "videos/"
    /\ key[2] # ""
    /\ key[3] = Interp(id)
    /\ key[4] = ".mp4"

\* C20 as stated: both variants put the video under a key of the form
\* videos/<providerTag>-<jobId>.mp4, and the public URL is made of the bucket
\* name and the key.
C20_KeyHasProviderTag ==
    calls.put > 0 =>
        /\ TaggedKey(putKey, video.id)
        /\ NonEmpty(putUrl) =>
              putUrl = <<"https://storage.googleapis.com/", bucketName, "/">> \o putKey

\* C20, amended: the Kie variant puts the video under videos/kie-<jobId>.mp4,
\* the OpenAI variant under videos/<jobId>.mp4 with no provider tag, and the
\* public URL is made of the bucket name and the key.
C20_KeyScheme ==
    calls.put > 0 =>
        /\ putKey = (IF variant = "kie"
                     THEN <<"videos/", "kie-", Interp(video.id), ".mp4">>
                     ELSE <<"videos/", Interp(video.id), ".mp4">>)
        /\ NonEmpty(putUrl) =>
              putUrl = <<"https://storage.googleapis.com/", bucketName, "/">> \o putKey

C20_Witness ==
    /\ calls.put = 1
    /\ variant = "openai"
    /\ ~Falsy(video.id)
    /\ NonEmpty(putUrl)
    /\ putKey = <<"videos/", video.id, ".mp4">>

\* The job execution e polls or downloads is one it created itself.
OwnJob(e, id) == id \in DOMAIN jobs => jobs[id].owner = e

C21_KieMetadataAllUnknown ==
    (variant = "kie" /\ outcome.kind = "result") =>
        /\ outcome.result.model = "unknown"
        /\ outcome.result.size = "unknown"
        /\ outcome.result.seconds = "unknown"

\* C21, amended: every result of the Kie variant reports size and duration as
\* the literal string "unknown" and the model as the literal "veo3_fast".
C21_KieMetadata ==
    (variant = "kie" /\ outcome.kind = "result") =>
        /\ outcome.result.model = "veo3_fast"
        /\ outcome.result.size = "unknown"
        /\ outcome.result.seconds = "unknown"

C21_Witness ==
    /\ variant = "kie"
    /\ pc = "done"
    /\ outcome.kind = "result"
    /\ outcome.result.size = "unknown"
    /\ NonEmpty(outcome.result.downloadUrl)

\* The poller has been handed its parameters.
PollerCalled == pc \in {"pollEnter", "pollLoop", "checkStatus", "delay", "pollReturned"}

\* C22: generate always invokes the poller with 5 minutes and 5 seconds for
\* OpenAI and with 10 minutes and 10 seconds for Kie, with or without an image.
C22_HardcodedPollParams ==
    (PollerCalled \/ calls.status > 0) =>
        /\ variant = "openai" => (maxWaitTime = 5 * 60 * 1000 /\ pollInterval = 5 * 1000)
        /\ variant = "kie" => (maxWaitTime = 10 * 60 * 1000 /\ pollInterval = 10 * 1000)

\* The messages of the per-request configuration errors.
ConfigMessages == {"Kie API key is not set", "Kie video URL is not set",
                   "Kie status URL is not set"}

\* C23: when a configuration value the services need is absent their
\* construction fails, so no request is served and no request ends with a
\* missing-configuration error.
C23_ConfigIsStartupError ==
    /\ pc \notin {"construct", "startupFailed"} => RequiredKeys(impl) \subseteq config
    /\ outcome.kind = "error" => outcome.err.msg \notin ConfigMessages

\* The executions that have passed their submit step, and the jobs an
\* execution's submit calls created.
PastSubmit == {e \in Execs : execs[e].pc # "createVideo"}
JobsOf(e) == {id \in DOMAIN jobs : jobs[id].owner = e}

\* C24: generate is not idempotent.  Every execution that reaches the submit
\* step issues one submit call of its own, and every accepted submit creates a
\* job of its own: no execution takes over the job of another with the same
\* input.
C24_NotIdempotent ==
    /\ \A e \in Execs : execs[e].submits = (IF e \in PastSubmit THEN 1 ELSE 0)
    /\ \A e \in PastSubmit :
         /\ Cardinality(JobsOf(e)) <= 1
         /\ execs[e].video.id \in DOMAIN jobs => JobsOf(e) = {execs[e].video.id}
    /\ Cardinality(DOMAIN jobs) = Cardinality({e \in PastSubmit : JobsOf(e) # {}})

\* Two executions of the same variant have both had their submit accepted:
\* the provider holds two jobs.
C24_Witness ==
    /\ execs["a"].variant = execs["b"].variant
    /\ PastSubmit = Execs
    /\ \A e \in Execs : execs[e].submits = 1
    /\ Cardinality(DOMAIN jobs) = 2

\* C25: the deadline is set once, on entry of the poller, to the time of entry
\* plus maxWaitTime and is never changed afterwards; every status check is
\* issued at a time strictly before the deadline; and a loop test made at or
\* after the deadline ends the poll with the timeout error without a further
\* status check.
C25_DeadlineFixedAndStrict ==
    [][/\ pc = "pollEnter" => deadline' = now + maxWaitTime
       /\ pc # "pollEnter" => deadline' = deadline
       /\ calls'.status > calls.status => now < deadline
       /\ (pc = "pollLoop" /\ now >= deadline) =>
             /\ calls'.status = calls.status
             /\ pc' = "pollReturned"
             /\ pollReturn'.kind = "throw"
             /\ pollReturn'.err = TimeoutError(variant)]_vars

\* The poll ended with the timeout after a wait that carried it to the
\* deadline or beyond: as many waits as checks, and no check after the last.
C25_Witness ==
    /\ TimedOut
    /\ calls.wait >= 1
    /\ calls.status = calls.wait
    /\ now >= deadline

\* C26 as stated: the poller has ended no later than one pollInterval after
\* the deadline.
C26_EndsWithinOneInterval ==
    pc = "pollReturned" => now <= deadline + pollInterval

\* C26 amended: the poller always ends; when its last status call returned
\* (rather than reject) it ends with a terminal status or the timeout error;
\* and it ends less than one pollInterval after the deadline plus the time its
\* last status request took and the lateness of its last timer.
C26_PollerTerminates ==
    /\ <>(pc = "pollReturned")
    /\ [](pc = "pollReturned" =>
            /\ lastReport # "Transient" =>
                  \/ TimedOut
                  \/ /\ pollReturn.kind = "value"
                     /\ pollReturn.value.status \in {"completed", "failed"}
            /\ now < deadline + pollInterval + Ms(MaxLatency) + Ms(MaxTimerSlack))

\* The timeout is thrown more than one pollInterval after the deadline: the
\* last status request was slow or the last timer late.
C26_Witness ==
    /\ pc = "pollReturned"
    /\ TimedOut
    /\ now > deadline + pollInterval

\* Kie reported Completed with no result reference at all.
EmptyResultList ==
    /\ variant = "kie"
    /\ pollReturn.kind = "value"
    /\ pollReturn.value.status = "completed"
    /\ (~pollReturn.value.videoUrls.defined \/ pollReturn.value.videoUrls.urls = << >>)

\* C27: a video is put only after a status check reported Completed and the
\* download succeeded; an execution that ended with Failed, with the timeout,
\* with a failed submit or with an empty result list made no download and no
\* put.
C27_PutOnlyAfterCompletedDownload ==
    /\ calls.download > 0 => firstTerminal.status = "Completed"
    /\ calls.put > 0 => (firstTerminal.status = "Completed" /\ downloaded)
    /\ ( \/ firstTerminal.status = "Failed"
         \/ TimedOut
         \/ calls.submit = 1 /\ ~submitted
         \/ EmptyResultList ) =>
          /\ calls.download = 0
          /\ calls.put = 0
          /\ fetched = {}
          /\ putBytes = 0

\* An execution ended after Kie reported Completed with an empty list.
C27_Witness ==
    /\ pc = "done"
    /\ EmptyResultList
    /\ pollReturn.value.videoUrls.defined
    /\ outcome.kind = "error"
    /\ calls.status >= 2

\* C28: the Kie poll is fixed-interval.  Every status check that does not end
\* the poll (Pending, unknown flag, rejected response, caught exception) is
\* followed by a wait; every check after the first is preceded by exactly one
\* wait since the check before it; and every wait is one timer of pollInterval.
C28_FixedInterval ==
    [][variant = "kie" =>
         /\ calls'.status > calls.status => calls.wait = calls.status
         /\ calls'.wait > calls.wait =>
               /\ calls'.wait = calls.wait + 1
               /\ calls.status = calls.wait + 1
               /\ (now' - now) - pollInterval \in TimerSlacks
         /\ (pc = "checkStatus" /\ lastReport' \in {"Pending", "Unknown", "Transient"}) =>
               pc' = "delay"]_vars

\* The Kie poll waits for the third time, after a status request that failed.
C28_Witness ==
    /\ variant = "kie"
    /\ pc = "pollLoop"
    /\ calls.status = 3
    /\ calls.wait = 3
    /\ ~onlyPending

\* C29: a Kie status response that is rejected (not OK, a code other than 200,
\* or code 200 without data) never ends the poll: the poller waits and asks
\* again; and an execution whose every status response was such a rejection
\* ends with the timeout error, not with the generation failure.
C29_RejectionIsTransient ==
    variant = "kie" =>
        /\ lastReport = "Transient" => (pc = "delay" /\ pollReturn.kind = "none")
        /\ (calls.status > 0 /\ allRejected) =>
              /\ firstTerminal.at = 0
              /\ pollReturn.kind # "value"
              /\ pollReturn.kind = "throw" => TimedOut
              /\ pc = "done" =>
                    /\ outcome.kind = "error"
                    /\ outcome.err = TimeoutError("kie")
                    /\ outcome.err # GenerationFailed("kie")
                    /\ calls.download = 0

\* A Kie execution ended after several status requests, all rejected.
C29_Witness ==
    /\ variant = "kie"
    /\ pc = "done"
    /\ allRejected
    /\ calls.status >= 3
    /\ outcome.err = TimeoutError("kie")

\* The messages of the internal error that generate's catch block makes up.
GenericMessages == {"Failed to generate video", "Failed to generate video with Kie"}

\* C30: every error that leaves generate is an HttpException.  An
\* HttpException that reached the catch block leaves with its status and
\* message unchanged; any other error is replaced by an HttpException of
\* status 500 with the generic message of the variant.
C30_OnlyHttpExceptionsLeave ==
    (pc = "done" /\ outcome.kind = "error") =>
        /\ outcome.err.http
        /\ caught.http => outcome.err = caught
        /\ ~caught.http =>
              /\ outcome.err.status = INTERNAL_SERVER_ERROR
              /\ outcome.err.msg \in GenericMessages
              /\ outcome.err.msg = "Failed to generate video" <=> variant = "openai"

\* An error that is no HttpException reached the catch block of generate.
C30_Witness ==
    /\ pc = "done"
    /\ outcome.kind = "error"
    /\ ~caught.http
    /\ outcome.err.msg \in GenericMessages

\* The messages of the errors thrown by the last statement of generate's try
\* block, after the completed and the failed branch.
FallThroughMessages == {"Unknown error during video generation",
                        "Unknown error during Kie video generation"}

\* C31: a value returned by the poller has status completed or failed, and so
\* generate never ends with the error of its fall-through statement.
C31_PollerReturnsTerminalOnly ==
    /\ pollReturn.kind = "value" => pollReturn.value.status \in {"completed", "failed"}
    /\ caught.msg \notin FallThroughMessages
    /\ outcome.kind = "error" => outcome.err.msg \notin FallThroughMessages

\* The poller returned a value to generate at its third status check or later,
\* after answers that were not all Pending, and generate has ended.
C31_Witness ==
    /\ ~onlyPending
    /\ firstTerminal.at >= 3
    /\ pollReturn.kind = "value"
    /\ pc = "done"

\* The executions whose image has been stored.
Uploaded == {e \in Execs : execs[e].imageUrl # NoImageUrl}

\* C32: the images of two executions are stored under distinct keys: no
\* object of the bucket was written by two executions, and no two executions
\* hold the same image URL.
C32_ImageKeysDistinct ==
    /\ \A k \in DOMAIN objects : Cardinality(objects[k]) <= 1
    /\ \A e1 \in Uploaded, e2 \in Uploaded :
         e1 # e2 => execs[e1].imageUrl # execs[e2].imageUrl

\* C33: once the poller has thrown its timeout error, and whenever it has ended
\* without a status check that reported Completed or Failed, generate makes no
\* further call: no
\* status check, no download, no put, nothing sent to the provider or the
\* bucket; it ends with the timeout error.
C33_NothingAfterTimeout ==
    [][/\ TimedOut => firstTerminal.at = 0
       /\ (pc = "pollReturned" /\ firstTerminal.at = 0 /\ now >= deadline) => TimedOut
       /\ ((pc \in {"pollReturned", "download", "saveVideo", "done"} /\ firstTerminal.at = 0
              /\ submitted) \/ TimedOut) =>
             /\ calls' = calls
             /\ fetched' = fetched
             /\ request' = request
             /\ putBytes' = putBytes
             /\ putKey' = putKey
             /\ pc' = "done"
             /\ outcome'.kind = "error"]_vars

\* generate ended with the timeout error after several status checks.
C33_Witness ==
    /\ pc = "done"
    /\ TimedOut
    /\ calls.status >= 2
    /\ outcome.err = TimeoutError(variant)
    /\ calls.download = 0
    /\ calls.put = 0

\* C34: when the download of the result fails, by a rejected request or a
\* response that is not OK, generate ends with the internal error (500) of the
\* download-and-store step, returns no result, and nothing is put; only the
\* body of a successful response is ever handed to the bucket.
C34_FailedDownloadMeansNoPut ==
    /\ (calls.download = 1 /\ ~downloaded) =>
          /\ pc = "done"
          /\ outcome.kind = "error"
          /\ outcome.err = StoreError(variant)
          /\ outcome.err.status = INTERNAL_SERVER_ERROR
          /\ calls.put = 0
          /\ putBytes = 0
    /\ downloaded => size \in Sizes
    /\ calls.put > 0 => (downloaded /\ putBytes \in Sizes)

\* A Kie execution whose download request was sent and failed.
C34_Witness ==
    /\ variant = "kie"
    /\ pc = "done"
    /\ calls.download = 1
    /\ ~downloaded
    /\ fetched # {}
    /\ outcome.err.status = INTERNAL_SERVER_ERROR

\* What a caller and the collaborators see of an execution: the calls made, in
\* order, and the result or the status of the error.
Observed(x) ==
    [trace |-> x.trace, kind |-> x.outcome.kind, result |-> x.outcome.result,
     status |-> x.outcome.err.status]

\* C35: on the same answers of the collaborators, the refactored and the
\* monolithic implementation make the same calls and end alike: with the same
\* result, or with errors of the same HTTP status.
C35_ImplementationsEquivalent ==
    (\A i \in Impls : twin[i].pc = "done") =>
        Observed(twin["services"]) = Observed(twin["monolith"])

\* C36: on both routes a request whose image is larger than MAX_IMAGE_SIZE
\* bytes ends in the controller with the bad-request error, with no image
\* upload, no submit and no poll; any other request is handed to generate with
\* the same image.
C36_ControllerSizeLimit ==
    [][/\ pc = "controller" =>
            IF image /\ imageSize > 31457280
            THEN /\ pc' = "done"
                 /\ outcome'.kind = "error"
                 /\ outcome'.err.status = BAD_REQUEST
                 /\ calls' = NoCalls
            ELSE /\ pc' = (IF image THEN "uploadImage" ELSE "createVideo")
                 /\ outcome' = NoOutcome
                 /\ image' = image
                 /\ imageSize' = imageSize
       /\ (image /\ imageSize > 31457280 /\ pc # "controller") =>
            /\ calls = NoCalls
            /\ calls' = NoCalls
            /\ outcome.err.status = BAD_REQUEST
       /\ ~(image /\ imageSize > 31457280) => outcome'.err.status # BAD_REQUEST]_vars

\* An image of exactly MAX_IMAGE_SIZE bytes went through the controller and
\* was uploaded.
C36_Witness ==
    /\ image
    /\ imageSize = 31457280
    /\ calls.upload = 1
    /\ calls.submit = 1

====
